---- MODULE Spec2Model ----
(***************************************************************************)
(* Dual-store file upload service: the upload / delete coordinator         *)
(* (TransactionService), its compensating actions, the cleanup queue and   *)
(* its processor, the content store (FileStorageService), the metadata     *)
(* store (ImageMetadataRepository) and the validation that gates uploads.  *)
(*                                                                         *)
(* Every await of the JavaScript code is one step of a call; a store       *)
(* operation that the code guards with try/catch can fail, and the         *)
(* outcome of each operation is chosen nondeterministically.               *)
(***************************************************************************)
EXTENDS Integers, Sequences, FiniteSets, TLC

VARIABLES disk, db, queue, clock, call, calls

vars == <<disk, db, queue, clock, call, calls>>

(***************************************************************************)
(* Bounds of the model.                                                    *)
(***************************************************************************)
\* number of calls (uploads, deletes, queue runs) started in one behaviour
MaxCalls == 3
Procs == {"a", "b"}

Null == [null |-> TRUE]

(***************************************************************************)
(* Configuration constants.                                                *)
(***************************************************************************)
PNG_SIGNATURE == <<137, 80, 78, 71>>
JPEG_SIGNATURE == <<255, 216, 255>>
GIF_SIGNATURE == <<71, 73, 70, 56>>
PDF_SIGNATURE == <<37, 80, 68, 70>>
WEBP_SIGNATURE == <<82, 73, 70, 70>>

EXT_JPG == <<".", "j", "p", "g">>
EXT_JPEG == <<".", "j", "p", "e", "g">>
EXT_PNG == <<".", "p", "n", "g">>
EXT_GIF == <<".", "g", "i", "f">>
EXT_PDF == <<".", "p", "d", "f">>
EXT_TXT == <<".", "t", "x", "t">>
EXT_WEBP == <<".", "w", "e", "b", "p">>
EXT_JS == <<".", "j", "s">>

FILE_SIGNATURES ==
  [m \in {"image/jpeg", "image/png", "image/gif", "application/pdf", "text/plain"} |->
     CASE m = "image/jpeg" -> {JPEG_SIGNATURE}
       [] m = "image/png" -> {PNG_SIGNATURE}
       [] m = "image/gif" -> {GIF_SIGNATURE}
       [] m = "application/pdf" -> {PDF_SIGNATURE}
       [] OTHER -> {}]

ALLOWED_FILE_TYPES ==
  [e \in {EXT_JPG, EXT_JPEG, EXT_PNG, EXT_GIF, EXT_PDF, EXT_TXT} |->
     CASE e \in {EXT_JPG, EXT_JPEG} -> {"image/jpeg"}
       [] e = EXT_PNG -> {"image/png"}
       [] e = EXT_GIF -> {"image/gif"}
       [] e = EXT_PDF -> {"application/pdf"}
       [] OTHER -> {"text/plain"}]

SUPPORTED_FORMATS == {"jpg", "png", "webp"}

MAX_FILE_SIZE == 5 * 1024 * 1024

\* the extension -> media type table of the mime-types library (the rows used)
MimeTable ==
  [e \in {EXT_JPG, EXT_JPEG, EXT_PNG, EXT_GIF, EXT_PDF, EXT_TXT, EXT_WEBP, EXT_JS} |->
     CASE e \in {EXT_JPG, EXT_JPEG} -> "image/jpeg"
       [] e = EXT_PNG -> "image/png"
       [] e = EXT_GIF -> "image/gif"
       [] e = EXT_PDF -> "application/pdf"
       [] e = EXT_TXT -> "text/plain"
       [] e = EXT_WEBP -> "image/webp"
       [] OTHER -> "application/javascript"]

(***************************************************************************)
(* Errors: statusCode 0 stands for an Error object without a statusCode.   *)
(***************************************************************************)
Err(status, msg) == [statusCode |-> status, message |-> msg]

NoError == Err(0, "")

HACKER_MESSAGE == "Te crei hacker acaso?"

(***************************************************************************)
(* FileValidationService                                                   *)
(***************************************************************************)
ToLowerChar(c) ==
  CASE c = "P" -> "p" [] c = "N" -> "n" [] c = "G" -> "g"
    [] c = "T" -> "t" [] c = "X" -> "x" [] c = "J" -> "j" [] c = "S" -> "s"
    [] OTHER -> c

ToLowerCase(s) == [i \in 1..Len(s) |-> ToLowerChar(s[i])]

\* variant: indexOf('.') in place of lastIndexOf('.')
LastIndexOfDot_First(s) ==
  IF \E i \in 1..Len(s) : s[i] = "."
  THEN CHOOSE i \in 1..Len(s) : s[i] = "." /\ \A j \in 1..(i-1) : s[j] # "."
  ELSE 0

\* String.prototype.lastIndexOf('.'), 1-based; 0 when there is no '.'
LastIndexOfDot(s) ==
  IF \E i \in 1..Len(s) : s[i] = "."
  THEN CHOOSE i \in 1..Len(s) : s[i] = "." /\ \A j \in (i+1)..Len(s) : s[j] # "."
  ELSE 0

extractExtension(filename) ==
  LET lastDot == LastIndexOfDot(filename) IN
  IF lastDot = 0 \/ lastDot = Len(filename)
  THEN [ok |-> FALSE, error |-> Err(400, "File must have a valid extension")]
  ELSE [ok |-> TRUE, value |-> ToLowerCase(SubSeq(filename, lastDot, Len(filename)))]

\* validateFileSize(buffer) compares buffer.length with MAX_FILE_SIZE and
\* returns a result object; it never throws.  validateFile hands it the file
\* object of multer, which has a size but no length (undefined > n is false).
validateFileSize(buffer) ==
  IF "length" \in DOMAIN buffer /\ buffer.length > MAX_FILE_SIZE
  THEN [isValid |-> FALSE, errorCode |-> "FILE_TOO_LARGE"]
  ELSE [isValid |-> TRUE]

validateExtension(filename) ==
  LET extension == extractExtension(filename) IN
  IF ~extension.ok THEN extension
  ELSE IF extension.value \notin DOMAIN ALLOWED_FILE_TYPES
  THEN [ok |-> FALSE, error |-> Err(400, "File extension not allowed")]
  ELSE extension

\* mime.lookup(originalname): the table entry of the text after the last '.'
MimeLookup(filename) ==
  LET lastDot == LastIndexOfDot(filename)
      e == ToLowerCase(SubSeq(filename, lastDot, Len(filename)))
  IN IF lastDot = 0 \/ lastDot = Len(filename) \/ e \notin DOMAIN MimeTable
     THEN [ok |-> FALSE] ELSE [ok |-> TRUE, value |-> MimeTable[e]]

validateMimeType(file) ==
  LET detectedMimeType == MimeLookup(file.originalname) IN
  IF ~detectedMimeType.ok
  THEN [ok |-> FALSE, error |-> Err(400, "Could not determine file type")]
  ELSE detectedMimeType

\* variant: the cross-validation names the check that failed
crossValidateExtensionAndMime_Telling(extension, mimeType) ==
  IF mimeType \notin ALLOWED_FILE_TYPES[extension]
  THEN [ok |-> FALSE, error |-> Err(400, "Extension does not match file type")]
  ELSE [ok |-> TRUE]

crossValidateExtensionAndMime(extension, mimeType) ==
  IF mimeType \notin ALLOWED_FILE_TYPES[extension]
  THEN [ok |-> FALSE, error |-> Err(400, HACKER_MESSAGE)]
  ELSE [ok |-> TRUE]

\* variant: only the first byte is compared
bufferStartsWith_FirstByte(buffer, signature) ==
  Len(buffer) >= 1 /\ buffer[1] = signature[1]

bufferStartsWith(buffer, signature) ==
  IF Len(buffer) < Len(signature) THEN FALSE
  ELSE \A i \in 1..Len(signature) : buffer[i] = signature[i]

validateFileSignature(file, expectedMimeType) ==
  LET signatures == IF expectedMimeType \in DOMAIN FILE_SIGNATURES
                    THEN FILE_SIGNATURES[expectedMimeType] ELSE {}
  IN IF signatures = {} THEN [ok |-> TRUE]
     ELSE IF \E signature \in signatures : bufferStartsWith(file.buffer, signature)
     THEN [ok |-> TRUE]
     ELSE [ok |-> FALSE, error |-> Err(400, HACKER_MESSAGE)]

\* variant: every file is accepted, as a text file
validateFile_AcceptAll(file) ==
  [isValid |-> TRUE, extension |-> EXT_TXT, mimeType |-> "text/plain", size |-> file.size]

validateFile(file) ==
  LET sizeResult == validateFileSize(file)
      extension == validateExtension(file.originalname)
      detectedMimeType == validateMimeType(file)
  IN IF ~extension.ok THEN [isValid |-> FALSE, error |-> extension.error]
     ELSE IF ~detectedMimeType.ok THEN [isValid |-> FALSE, error |-> detectedMimeType.error]
     ELSE LET cross == crossValidateExtensionAndMime(extension.value, detectedMimeType.value)
              sig == validateFileSignature(file, detectedMimeType.value)
          IN IF ~cross.ok THEN [isValid |-> FALSE, error |-> cross.error]
             ELSE IF ~sig.ok THEN [isValid |-> FALSE, error |-> sig.error]
             ELSE [isValid |-> TRUE, extension |-> extension.value,
                   mimeType |-> detectedMimeType.value, size |-> file.size]

(***************************************************************************)
(* ImageTransformationService.  The image library (sharp) is outside the   *)
(* repository: toBuffer either fails or returns an image encoded in the    *)
(* target format, which starts with that format's signature.               *)
(***************************************************************************)
\* convert and type are format names; resize and quality are the strings of
\* the query, as sequences of characters; an absent parameter is empty
NoQuery == [convert |-> "", type |-> "", resize |-> <<>>, quality |-> <<>>]

MIN_DIMENSION == 200
MAX_DIMENSION == 4000
MIN_QUALITY == 50

Digits == {"0", "1", "2", "3", "4", "5", "6", "7", "8", "9"}

DigitValue(d) ==
  CASE d = "0" -> 0 [] d = "1" -> 1 [] d = "2" -> 2 [] d = "3" -> 3 [] d = "4" -> 4
    [] d = "5" -> 5 [] d = "6" -> 6 [] d = "7" -> 7 [] d = "8" -> 8 [] OTHER -> 9

\* the length of the longest prefix of s made of digits
LeadingDigits(s) ==
  CHOOSE n \in 0..Len(s) :
    /\ \A i \in 1..n : s[i] \in Digits
    /\ n < Len(s) => s[n+1] \notin Digits

RECURSIVE DecimalValue(_)
DecimalValue(s) ==
  IF s = <<>> THEN 0
  ELSE 10 * DecimalValue(SubSeq(s, 1, Len(s) - 1)) + DigitValue(s[Len(s)])

\* parseInt(s, 10) of a string without sign: the value of the leading digits,
\* NaN when there is none
parseInt(s) ==
  LET n == LeadingDigits(s) IN
  IF n = 0 THEN [isNaN |-> TRUE]
  ELSE [isNaN |-> FALSE, value |-> DecimalValue(SubSeq(s, 1, n))]

\* a width or height: null, or a number
NullDimension == [isNull |-> TRUE]
Dimension(n) == [isNull |-> FALSE, value |-> n]

\* JavaScript truthiness of a dimension: null and 0 are falsy
Truthy(d) == ~d.isNull /\ d.value # 0

\* resizeParam.match(/^(\d+)?x?(\d+)?$/i)
MatchResize(resizeParam) ==
  LET n1 == LeadingDigits(resizeParam)
      rest1 == SubSeq(resizeParam, n1 + 1, Len(resizeParam))
      rest2 == IF rest1 # <<>> /\ rest1[1] \in {"x", "X"} THEN Tail(rest1) ELSE rest1
      n2 == LeadingDigits(rest2)
  IN IF n2 # Len(rest2) THEN [matched |-> FALSE]
     ELSE [matched |-> TRUE, g1 |-> SubSeq(resizeParam, 1, n1), g2 |-> rest2]

parseResizeParameter(resizeParam) ==
  LET match == MatchResize(resizeParam) IN
  IF ~match.matched THEN [ok |-> FALSE, error |-> Err(400, "Invalid resize format")]
  ELSE
    LET width == IF match.g1 # <<>> THEN Dimension(parseInt(match.g1).value) ELSE NullDimension
        height == IF match.g2 # <<>> THEN Dimension(parseInt(match.g2).value) ELSE NullDimension
    IN
    IF ~Truthy(width) /\ ~Truthy(height)
    THEN [ok |-> FALSE, error |-> Err(400, "At least width or height must be specified")]
    ELSE IF (Truthy(width) /\ width.value > MAX_DIMENSION)
              \/ (Truthy(height) /\ height.value > MAX_DIMENSION)
    THEN [ok |-> FALSE, error |-> Err(400, "Maximum dimension exceeded")]
    ELSE IF (Truthy(width) /\ width.value < MIN_DIMENSION)
              \/ (Truthy(height) /\ height.value < MIN_DIMENSION)
    THEN [ok |-> FALSE, error |-> Err(400, "Dimensions too small for real-world usage")]
    ELSE [ok |-> TRUE, width |-> width, height |-> height]

applyResize(resizeParam) == parseResizeParameter(resizeParam)

applyQuality(qualityParam) ==
  LET quality == parseInt(qualityParam) IN
  IF quality.isNaN \/ quality.value < 1 \/ quality.value > 100
  THEN [ok |-> FALSE, error |-> Err(400, "Quality must be a number between 1 and 100")]
  ELSE IF quality.value < MIN_QUALITY
  THEN [ok |-> FALSE, error |-> Err(400, "Quality too low for real-world usage")]
  ELSE [ok |-> TRUE, quality |-> quality.value]

hasAnyTransformation(queryParams) ==
  queryParams.convert # "" \/ queryParams.type # ""
    \/ queryParams.resize # <<>> \/ queryParams.quality # <<>>

\* mimeType.startsWith('image/') && mimeType !== 'image/gif'
isTransformableImage(mimeType) ==
  mimeType \in {"image/jpeg", "image/png", "image/webp"}

FormatToLowerCase(f) ==
  CASE f = "PNG" -> "png" [] f = "JPG" -> "jpg" [] f = "WEBP" -> "webp" [] OTHER -> f

\* variant: a format outside SUPPORTED_FORMATS is encoded as webp
applyFormatConversion_AnyFormat(targetFormat) ==
  LET format == FormatToLowerCase(targetFormat) IN
  [ok |-> TRUE,
   sharpFormat |-> IF format = "jpg" THEN "jpeg" ELSE IF format = "png" THEN "png" ELSE "webp",
   extension |-> CASE format = "jpg" -> EXT_JPG [] format = "png" -> EXT_PNG
                   [] OTHER -> EXT_WEBP]

applyFormatConversion(targetFormat) ==
  LET format == FormatToLowerCase(targetFormat) IN
  IF format \notin SUPPORTED_FORMATS
  THEN [ok |-> FALSE, error |-> Err(400, "Unsupported format")]
  ELSE [ok |-> TRUE,
        sharpFormat |-> IF format = "jpg" THEN "jpeg" ELSE format,
        extension |-> CASE format = "jpeg" -> EXT_JPG
                        [] format = "jpg" -> EXT_JPG
                        [] format = "png" -> EXT_PNG
                        [] OTHER -> EXT_WEBP]

\* the format of an input image, as the library detects it from the bytes
DetectedFormat(buffer) ==
  CASE bufferStartsWith(buffer, PNG_SIGNATURE) -> "png"
    [] bufferStartsWith(buffer, JPEG_SIGNATURE) -> "jpeg"
    [] OTHER -> "webp"

SharpToBuffer(buffer, sharpFormat) ==
  CASE sharpFormat = "png" -> PNG_SIGNATURE \o <<2>>
    [] sharpFormat = "jpeg" -> JPEG_SIGNATURE \o <<2>>
    [] OTHER -> WEBP_SIGNATURE \o <<2>>

\* sharpOk: whether the library call succeeds.  Every failure inside the try
\* block, a rejected parameter included, is rethrown with status 422.
transformImage(fileBuffer, originalExtension, queryParams, sharpOk) ==
  IF ~hasAnyTransformation(queryParams)
  THEN [ok |-> TRUE, buffer |-> fileBuffer, extension |-> originalExtension,
        wasTransformed |-> FALSE]
  ELSE
    LET formatParam == IF queryParams.convert # "" THEN queryParams.convert
                       ELSE queryParams.type
        conv == IF formatParam # "" THEN applyFormatConversion(formatParam)
                ELSE [ok |-> TRUE, sharpFormat |-> DetectedFormat(fileBuffer),
                      extension |-> originalExtension]
        resized == IF queryParams.resize # <<>> THEN applyResize(queryParams.resize)
                   ELSE [ok |-> TRUE]
        adjusted == IF queryParams.quality # <<>> THEN applyQuality(queryParams.quality)
                    ELSE [ok |-> TRUE]
    IN IF ~conv.ok \/ ~resized.ok \/ ~adjusted.ok \/ ~sharpOk
       THEN [ok |-> FALSE, error |-> Err(422, "Image transformation failed")]
       ELSE [ok |-> TRUE, buffer |-> SharpToBuffer(fileBuffer, conv.sharpFormat),
             extension |-> conv.extension, wasTransformed |-> TRUE]

(***************************************************************************)
(* FileStorageService: the content store.  disk maps each name that has a  *)
(* file in the upload directory to the file's bytes.                       *)
(***************************************************************************)
generateUniqueFilename(id, originalExtension) == [id |-> id, ext |-> originalExtension]

getRelativePath(filename) == [dir |-> "/uploads/", file |-> filename]

DiskWrite(d, n, b) == [x \in DOMAIN d \cup {n} |-> IF x = n THEN b ELSE d[x]]

DiskRemove(d, n) == [x \in DOMAIN d \ {n} |-> d[x]]

\* fs.unlink: "ok" removes the file, "enoent" reports a missing file, "fail" is
\* any other error (EACCES, EIO, ...) and leaves the file in place
UnlinkOutcomes(d, n) == IF n \in DOMAIN d THEN {"ok", "fail"} ELSE {"enoent"}

Unlink(d, n, outcome) == IF outcome = "ok" THEN DiskRemove(d, n) ELSE d

\* fs.writeFile then fs.stat: "ok"; "fail_before" (mkdir or open fails, nothing
\* is written); "partial" (the write stops after a proper prefix); "stat_fail"
\* (the bytes are written, the verification fails)
WriteOutcomes == {"ok", "fail_before", "partial", "stat_fail"}

WrittenStates(d, n, b, outcome) ==
  CASE outcome = "fail_before" -> {d}
    [] outcome = "partial" -> {DiskWrite(d, n, SubSeq(b, 1, k)) : k \in 0..(Len(b) - 1)}
    [] OTHER -> {DiskWrite(d, n, b)}

\* variant: no error of fs.unlink is rethrown
deleteFileThrows_Never(outcome) == FALSE

\* variant: a missing file is rethrown like any other error
deleteFileThrows_OnMissing(outcome) == outcome \in {"fail", "enoent"}

\* deleteFile returns true after "ok", returns false after "enoent" and
\* rethrows every other error
deleteFileThrows(outcome) == outcome = "fail"

fileExists(d, n) == n \in DOMAIN d

(***************************************************************************)
(* ImageMetadataRepository: the metadata store.  db maps each name that    *)
(* has a row in images_metadata to the row.                                *)
(***************************************************************************)
NULL == <<"NULL">>

\* create destructures { name, maskName, path, mime, size }: a field the
\* argument lacks is undefined and is stored as NULL
RowOf(metadata) ==
  [name |-> metadata.name,
   mask_name |-> IF "maskName" \in DOMAIN metadata THEN metadata.maskName ELSE NULL,
   path |-> metadata.path, mime |-> metadata.mime, size |-> metadata.size]

DbInsert(t, row) == [x \in DOMAIN t \cup {row.name} |-> IF x = row.name THEN row ELSE t[x]]

DbRemove(t, n) == [x \in DOMAIN t \ {n} |-> t[x]]

\* INSERT: "conflict" is the uniqueness violation (23505), "fail" any other error
CreateOutcomes(t, n) == IF n \in DOMAIN t THEN {"conflict"} ELSE {"ok", "fail"}

\* variant: the uniqueness violation is not told apart
CreateError_Generic(outcome) == Err(500, "Database error")

CreateError(outcome) ==
  IF outcome = "conflict" THEN Err(409, "File with this name already exists")
  ELSE Err(500, "Database error")

\* variant: a DELETE that removes no row is taken for a success
DeleteOutcomes_Silent(t, n) == {"ok", "fail"}

\* DELETE ... RETURNING *: no row gives 404
DeleteOutcomes(t, n) == IF n \in DOMAIN t THEN {"ok", "fail"} ELSE {"notfound"}

DeleteError(outcome) ==
  IF outcome = "notfound" THEN Err(404, "File not found") ELSE Err(500, "Database error")

findByName(t, n) == IF n \in DOMAIN t THEN t[n] ELSE Null

(***************************************************************************)
(* CleanupQueueRepository: queue maps each queued name to its entry.       *)
(***************************************************************************)
\* variant: ON CONFLICT (name) DO NOTHING
QueueAdd_KeepExisting(qu, n, now) ==
  [x \in DOMAIN qu \cup {n} |->
     IF x \in DOMAIN qu THEN qu[x] ELSE [fail_time |-> now, delete_state |-> FALSE]]

\* INSERT ... ON CONFLICT (name) DO UPDATE
QueueAdd(qu, n, now) ==
  [x \in DOMAIN qu \cup {n} |->
     IF x = n THEN [fail_time |-> now, delete_state |-> FALSE] ELSE qu[x]]

\* variant: the update does not change the row
markAsProcessed_KeepState(qu, n, success) == qu

\* UPDATE ... SET delete_state = success WHERE name = filename
markAsProcessed(qu, n, success) ==
  [x \in DOMAIN qu |-> IF x = n THEN [qu[x] EXCEPT !.delete_state = success] ELSE qu[x]]

PendingNames(qu) == {n \in DOMAIN qu : ~qu[n].delete_state}

(***************************************************************************)
(* Requests.                                                               *)
(***************************************************************************)
File(name, bytes, declared) ==
  [originalname |-> name, buffer |-> bytes, size |-> Len(bytes), mimetype |-> declared]

PhotoPng == File(<<"a", ".", "p", "n", "g">>, PNG_SIGNATURE \o <<1>>, "image/png")
NoteTxt == File(<<"n", ".", "t", "x", "t">>, <<104, 105>>, "text/plain")
EvilPngJs == File(<<"e", ".", "p", "n", "g", ".", "j", "s">>, PNG_SIGNATURE \o <<1>>, "image/png")
FakePng == File(<<"f", ".", "P", "N", "G">>, <<104, 105>>, "image/png")
NoExtension == File(<<"x">>, <<104, 105>>, "text/plain")
PngAsTxt == File(<<"p", ".", "t", "x", "t">>, PNG_SIGNATURE \o <<1>>, "text/plain")

UploadFiles == {PhotoPng, NoteTxt, EvilPngJs, FakePng, NoExtension, PngAsTxt}

Queries == {NoQuery, [NoQuery EXCEPT !.convert = "jpg"], [NoQuery EXCEPT !.type = "bmp"]}

TransformFiles == {PhotoPng, NoteTxt}

\* query strings with resize and quality parameters, valid and invalid
TransformQueries ==
  {NoQuery, [NoQuery EXCEPT !.convert = "jpg"], [NoQuery EXCEPT !.type = "bmp"],
   [NoQuery EXCEPT !.convert = "jpeg"],
   [NoQuery EXCEPT !.resize = <<"3", "0", "0", "x", "4", "0", "0">>,
                   !.quality = <<"8", "0">>],
   [NoQuery EXCEPT !.resize = <<"a">>], [NoQuery EXCEPT !.resize = <<"x">>],
   [NoQuery EXCEPT !.resize = <<"9", "0", "0", "0">>],
   [NoQuery EXCEPT !.resize = <<"x", "1", "0", "0">>],
   [NoQuery EXCEPT !.quality = <<"q">>], [NoQuery EXCEPT !.quality = <<"3", "0">>],
   [NoQuery EXCEPT !.quality = <<"1", "0", "1">>]}

\* the values of the `${timestamp}_${uuid}` part of a generated name
Ids == {"1730600000000_uuid1"}

AllNames == {generateUniqueFilename(i, e) : i \in Ids, e \in {EXT_PNG, EXT_TXT, EXT_JPG}}

(***************************************************************************)
(* The state of one call: its position (pc) and its local variables.       *)
(* ops lists the store operations the call has issued, with their          *)
(* outcomes; pre holds the three stores as they were when the call began.  *)
(* For a run of the queue processor, batch is the list getPending          *)
(* returned, handled lists the items the loop has finished with and how,   *)
(* batchSize is the batch size the caller asked for, and reliable says     *)
(* that no store operation fails during the run.  For an archival,         *)
(* daysOld is the age threshold it was called with.  For a validation,     *)
(* extension and mimeType are the locals of validateFile.  For an upload   *)
(* that reaches transformImage with a transformation, sharpOk tells        *)
(* whether the image library succeeded.  response is the error response   *)
(* the controller has sent.  For a call of parseResizeParameter, named is  *)
(* the pair of numbers its parameter was written from.                     *)
(***************************************************************************)
Idle ==
  [pc |-> "idle", op |-> "none", file |-> Null, queryParams |-> NoQuery,
   filename |-> Null, fileBuffer |-> <<>>,
   metadata |-> Null, savedFile |-> FALSE, savedMetadata |-> FALSE,
   originalMetadata |-> Null, deletedFromDatabase |-> FALSE,
   error |-> NoError, thrown |-> FALSE, result |-> Null,
   cleanupItems |-> <<>>, processedCount |-> 0, itemMetadata |-> Null,
   markSuccess |-> FALSE,
   batchSize |-> 0, batch |-> <<>>, handled |-> <<>>, reliable |-> FALSE,
   daysOld |-> 0, extension |-> <<>>, mimeType |-> "", sharpOk |-> TRUE,
   response |-> Null, named |-> Null,
   ops |-> <<>>, pre |-> Null]

Op(name, outcome) == [op |-> name, res |-> outcome]

Finished(c) == c.pc \in {"idle", "done"}

NoCallInProgress == \A p \in Procs : Finished(call[p])

Snapshot == [disk |-> disk, db |-> db, queue |-> queue]

\* a call ends by throwing err
Throw(c, err) == [c EXCEPT !.pc = "done", !.error = err, !.thrown = TRUE]

\* a call ends by returning res
Return(c, res) == [c EXCEPT !.pc = "done", !.result = res]

Init ==
  /\ disk = <<>>
  /\ db = <<>>
  /\ queue = <<>>
  /\ clock = 0
  /\ call = [p \in Procs |-> Idle]
  /\ calls = 0

(***************************************************************************)
(* ImageController.uploadImage up to the first store operation:            *)
(* validation, transformation, name generation, metadata.                  *)
(***************************************************************************)
\* variant: the size of the uploaded bytes instead of the stored bytes
UploadMetadata_OriginalSize(uniqueFilename, file, validationResult, transformationResult) ==
  [name |-> uniqueFilename,
   maskName |-> file.originalname,
   path |-> getRelativePath(uniqueFilename),
   mime |-> validationResult.mimeType,
   size |-> file.size]

UploadMetadata(uniqueFilename, file, validationResult, transformationResult) ==
  [name |-> uniqueFilename,
   maskName |-> file.originalname,
   path |-> getRelativePath(uniqueFilename),
   mime |-> validationResult.mimeType,
   size |-> Len(transformationResult.buffer)]

\* the catch block of uploadImage and of deleteImage: status and body of the
\* error response when NODE_ENV is not development
ErrorResponse(error) ==
  LET statusCode == IF error.statusCode # 0 THEN error.statusCode ELSE 500 IN
  [status |-> statusCode,
   error |-> IF statusCode < 500 THEN error.message ELSE "Internal server error"]

\* uploadImage for a request with a file of files and a query string of queries
UploadRequest(p, files, queries) ==
  /\ Finished(call[p])
  /\ calls < MaxCalls
  /\ calls' = calls + 1
  /\ \E file \in files, queryParams \in queries, id \in Ids, sharpOk \in BOOLEAN :
       LET c0 == [Idle EXCEPT !.op = "upload", !.pre = Snapshot, !.file = file,
                             !.queryParams = queryParams]
           validationResult == validateFile(file)
       IN IF ~validationResult.isValid
          THEN call' = [call EXCEPT ![p] = Throw(c0, validationResult.error)]
          ELSE IF hasAnyTransformation(queryParams)
                  /\ ~isTransformableImage(validationResult.mimeType)
          THEN call' = [call EXCEPT ![p] =
                 Return(c0, [status |-> 400, error |-> "Transformation not supported"])]
          ELSE
            LET transformationResult ==
                  transformImage(file.buffer, validationResult.extension, queryParams, sharpOk)
                c1 == [c0 EXCEPT !.sharpOk = ~hasAnyTransformation(queryParams) \/ sharpOk]
            IN IF ~transformationResult.ok
               THEN call' = [call EXCEPT ![p] = Throw(c1, transformationResult.error)]
               ELSE
                 LET uniqueFilename ==
                       generateUniqueFilename(id, transformationResult.extension)
                 IN call' = [call EXCEPT ![p] =
                      [c1 EXCEPT !.pc = "up_save",
                                 !.filename = uniqueFilename,
                                 !.fileBuffer = transformationResult.buffer,
                                 !.metadata = UploadMetadata(uniqueFilename, file,
                                                validationResult, transformationResult)]]
  /\ UNCHANGED <<disk, db, queue, clock>>

Environments == {"production", "development"}

\* the same catch block under a given NODE_ENV: in development the body has
\* a details field with the message of the error
ErrorResponseIn(NODE_ENV, error) ==
  IF NODE_ENV = "development"
  THEN [status |-> ErrorResponse(error).status, error |-> ErrorResponse(error).error,
        details |-> error.message]
  ELSE ErrorResponse(error)

uploadImage(p) == UploadRequest(p, UploadFiles, Queries)

uploadImageTransformed(p) == UploadRequest(p, TransformFiles, TransformQueries)

(***************************************************************************)
(* TransactionService.executeUploadTransaction                             *)
(***************************************************************************)
\* Step 1: FileStorageService.saveFile, with its own cleanup on failure
saveFile(p) ==
  LET c == call[p] IN
  /\ c.pc = "up_save"
  /\ \E w \in WriteOutcomes :
       IF w = "ok"
       THEN /\ disk' = DiskWrite(disk, c.filename, c.fileBuffer)
            /\ call' = [call EXCEPT ![p] =
                 [c EXCEPT !.pc = "up_create", !.savedFile = TRUE,
                           !.ops = Append(c.ops, Op("saveFile", "ok"))]]
       ELSE \E d1 \in WrittenStates(disk, c.filename, c.fileBuffer, w) :
            \E u \in UnlinkOutcomes(d1, c.filename) :
              /\ disk' = Unlink(d1, c.filename, u)
              /\ call' = [call EXCEPT ![p] =
                   [c EXCEPT !.pc = "up_rollback",
                             !.error = Err(500, "File storage failed"),
                             !.ops = Append(c.ops, Op("saveFile", w))]]
  /\ UNCHANGED <<db, queue, clock, calls>>

\* Step 2: imageRepository.create(metadata)
createMetadata(p) ==
  LET c == call[p] IN
  /\ c.pc = "up_create"
  /\ \E o \in CreateOutcomes(db, c.metadata.name) :
       IF o = "ok"
       THEN /\ db' = DbInsert(db, RowOf(c.metadata))
            /\ call' = [call EXCEPT ![p] =
                 Return([c EXCEPT !.savedMetadata = TRUE,
                                  !.ops = Append(c.ops, Op("create", o))],
                        [success |-> TRUE, filename |-> c.filename,
                         metadata |-> c.metadata])]
       ELSE /\ db' = db
            /\ call' = [call EXCEPT ![p] =
                 [c EXCEPT !.pc = "up_rollback", !.error = CreateError(o),
                           !.ops = Append(c.ops, Op("create", o))]]
  /\ UNCHANGED <<disk, queue, clock, calls>>

\* the error rollbackDeleteTransaction throws after a failed re-insert
CriticalError == Err(500, "Critical system failure during rollback. Operations team has been notified.")

\* variant: the upload rollback escalates like the delete rollback does
UploadThrown_Critical(c) == CriticalError

\* the error executeUploadTransaction rethrows once the rollback has returned
UploadThrown(c) == c.error

\* rollbackUploadTransaction: undo the metadata insert if it was made (never
\* the case when the catch block runs), then delete the file if it was saved
rollbackUploadTransaction(p) ==
  LET c == call[p] IN
  /\ c.pc = "up_rollback"
  /\ IF c.savedMetadata
     THEN \E o \in DeleteOutcomes(db, c.filename) :
            /\ db' = IF o = "ok" THEN DbRemove(db, c.filename) ELSE db
            /\ disk' = disk
            /\ call' = [call EXCEPT ![p] =
                 [c EXCEPT !.savedMetadata = FALSE,
                           !.pc = IF o = "ok" THEN "up_rollback" ELSE "up_rb_enq_db",
                           !.ops = Append(c.ops, Op("delete", o))]]
     ELSE IF c.savedFile
     THEN \E u \in UnlinkOutcomes(disk, c.filename) :
            /\ disk' = Unlink(disk, c.filename, u)
            /\ db' = db
            /\ call' = [call EXCEPT ![p] =
                 IF deleteFileThrows(u)
                 THEN [c EXCEPT !.pc = "up_rb_enq",
                                !.ops = Append(c.ops, Op("deleteFile", u))]
                 ELSE Throw([c EXCEPT !.ops = Append(c.ops, Op("deleteFile", u))],
                            UploadThrown(c))]
     ELSE /\ disk' = disk
          /\ db' = db
          /\ call' = [call EXCEPT ![p] = Throw(c, UploadThrown(c))]
  /\ UNCHANGED <<queue, clock, calls>>

\* variant: a failed enqueue is thrown on to the caller
AfterEnqueue_Escalate(c) ==
  IF c.ops[Len(c.ops)].res = "fail" /\ c.pc # "up_rb_enq_db"
  THEN Throw(c, Err(500, "Database error"))
  ELSE CASE c.pc = "up_rb_enq_db" -> [c EXCEPT !.pc = "up_rollback"]
         [] c.pc = "up_rb_enq" -> Throw(c, c.error)
         [] OTHER -> Throw(c, Err(500, "Critical system failure during rollback. Operations team has been notified."))

\* variant: after the enqueue every rollback goes back to the original error
AfterEnqueue_Rethrow(c) ==
  CASE c.pc = "up_rb_enq_db" -> [c EXCEPT !.pc = "up_rollback"]
    [] OTHER -> Throw(c, c.error)

\* addToCleanupQueue(filename): cleanupRepository.add, whose failure is
\* logged and dropped; the caller then goes on (upload rollback) or throws
\* the critical error (delete rollback)
AfterEnqueue(c) ==
  CASE c.pc = "up_rb_enq_db" -> [c EXCEPT !.pc = "up_rollback"]
    [] c.pc = "up_rb_enq" -> Throw(c, UploadThrown(c))
    [] OTHER -> Throw(c, CriticalError)

addToCleanupQueue(p) ==
  LET c == call[p] IN
  /\ c.pc \in {"up_rb_enq_db", "up_rb_enq", "del_rb_enq"}
  /\ \E ok \in BOOLEAN :
       /\ queue' = IF ok THEN QueueAdd(queue, c.filename, clock + 1) ELSE queue
       /\ clock' = IF ok THEN clock + 1 ELSE clock
       /\ call' = [call EXCEPT ![p] =
            AfterEnqueue([c EXCEPT !.ops = Append(c.ops, Op("add", IF ok THEN "ok" ELSE "fail"))])]
  /\ UNCHANGED <<disk, db, calls>>

(***************************************************************************)
(* TransactionService.executeDeleteTransaction                             *)
(***************************************************************************)
deleteImage(p) ==
  /\ Finished(call[p])
  /\ calls < MaxCalls
  /\ calls' = calls + 1
  /\ \E filename \in AllNames :
       call' = [call EXCEPT ![p] =
         [Idle EXCEPT !.op = "delete", !.pc = "del_find", !.filename = filename,
                      !.pre = Snapshot]]
  /\ UNCHANGED <<disk, db, queue, clock>>

\* variant: the error is thrown without a statusCode
NotFoundError_NoStatus == Err(0, "File not found in database")

NotFoundError == Err(404, "File not found in database")

\* Step 1: imageRepository.findByName(filename)
findMetadata(p) ==
  LET c == call[p] IN
  /\ c.pc = "del_find"
  /\ \E ok \in BOOLEAN :
       call' = [call EXCEPT ![p] =
         IF ~ok
         THEN [c EXCEPT !.pc = "del_rollback", !.error = Err(500, "Database error"),
                        !.ops = Append(c.ops, Op("findByName", "fail"))]
         ELSE LET row == findByName(db, c.filename) IN
              IF row = Null
              THEN [c EXCEPT !.pc = "del_rollback", !.error = NotFoundError,
                             !.ops = Append(c.ops, Op("findByName", "null"))]
              ELSE [c EXCEPT !.pc = "del_db", !.originalMetadata = row,
                             !.ops = Append(c.ops, Op("findByName", "row"))]]
  /\ UNCHANGED <<disk, db, queue, clock, calls>>

\* Step 2: imageRepository.delete(filename)
deleteMetadata(p) ==
  LET c == call[p] IN
  /\ c.pc = "del_db"
  /\ \E o \in DeleteOutcomes(db, c.filename) :
       /\ db' = IF o = "ok" THEN DbRemove(db, c.filename) ELSE db
       /\ call' = [call EXCEPT ![p] =
            IF o = "ok"
            THEN [c EXCEPT !.pc = "del_file", !.deletedFromDatabase = TRUE,
                           !.ops = Append(c.ops, Op("delete", o))]
            ELSE [c EXCEPT !.pc = "del_rollback", !.error = DeleteError(o),
                           !.ops = Append(c.ops, Op("delete", o))]]
  /\ UNCHANGED <<disk, queue, clock, calls>>

\* the error fs.unlink raises when it fails for a reason other than ENOENT
UnlinkError == Err(0, "EACCES: permission denied, unlink")

\* Step 3: FileStorageService.deleteFile(filename); a missing file is not an error
deleteFile(p) ==
  LET c == call[p] IN
  /\ c.pc = "del_file"
  /\ \E u \in UnlinkOutcomes(disk, c.filename) :
       /\ disk' = Unlink(disk, c.filename, u)
       /\ call' = [call EXCEPT ![p] =
            IF deleteFileThrows(u)
            THEN [c EXCEPT !.pc = "del_rollback", !.error = UnlinkError,
                           !.ops = Append(c.ops, Op("deleteFile", u))]
            ELSE Return([c EXCEPT !.ops = Append(c.ops, Op("deleteFile", u))],
                        [success |-> TRUE, filename |-> c.filename,
                         originalMetadata |-> c.originalMetadata])]
  /\ UNCHANGED <<db, queue, clock, calls>>

\* variant: every failed delete ends with the critical error
DeleteThrown_Critical(c) == CriticalError

\* the error executeDeleteTransaction rethrows once the rollback has returned
DeleteThrown(c) == c.error

\* variant: the re-insert does not look at deletedFromDatabase
ShouldReinsert_Always(c) == c.originalMetadata # Null

\* whether rollbackDeleteTransaction re-inserts the row
ShouldReinsert(c) == c.deletedFromDatabase /\ c.originalMetadata # Null

\* rollbackDeleteTransaction: imageRepository.create(originalMetadata)
rollbackDeleteTransaction(p) ==
  LET c == call[p] IN
  /\ c.pc = "del_rollback"
  /\ IF ShouldReinsert(c)
     THEN \E o \in CreateOutcomes(db, c.originalMetadata.name) :
            /\ db' = IF o = "ok" THEN DbInsert(db, RowOf(c.originalMetadata)) ELSE db
            /\ call' = [call EXCEPT ![p] =
                 IF o = "ok"
                 THEN Throw([c EXCEPT !.ops = Append(c.ops, Op("create", o))],
                            DeleteThrown(c))
                 ELSE [c EXCEPT !.pc = "del_rb_enq",
                                !.ops = Append(c.ops, Op("create", o))]]
     ELSE /\ db' = db
          /\ call' = [call EXCEPT ![p] = Throw(c, DeleteThrown(c))]
  /\ UNCHANGED <<disk, queue, clock, calls>>

(***************************************************************************)
(* TransactionService.processCleanupQueue                                  *)
(***************************************************************************)
\* the default of getPending's limit parameter, which the processor uses
DefaultPendingLimit == 100

\* SELECT ... WHERE delete_state = FALSE ORDER BY fail_time ASC LIMIT limit:
\* the possible results, as sequences of names (rows of equal fail_time come
\* in any order)
RECURSIVE OrderedByFailTime(_, _, _)
OrderedByFailTime(qu, rows, limit) ==
  IF limit = 0 \/ rows = {}
  THEN {<<>>}
  ELSE UNION {{<<x>> \o s : s \in OrderedByFailTime(qu, rows \ {x}, limit - 1)} :
                x \in {y \in rows : \A z \in rows : qu[y].fail_time <= qu[z].fail_time}}

\* the number of rows that come before row x when no two fail_times are equal
Rank(qu, rows, x) == Cardinality({y \in rows : qu[y].fail_time < qu[x].fail_time})

getPending(qu, limit) ==
  LET pending == PendingNames(qu)
      n == IF Cardinality(pending) < limit THEN Cardinality(pending) ELSE limit
  IN IF \A x, y \in pending : x # y => qu[x].fail_time # qu[y].fail_time
     THEN {[i \in 1..n |-> CHOOSE x \in pending : Rank(qu, pending, x) = i - 1]}
     ELSE OrderedByFailTime(qu, pending, limit)

\* the batch sizes a caller may ask for; the function takes the two
\* repositories only, so a further argument is ignored
BatchSizes == {1, 2}

\* the answers a store operation that can fail may give during call c
Answers(c) == IF c.reliable THEN {TRUE} ELSE BOOLEAN

processCleanupQueue(p) ==
  /\ Finished(call[p])
  /\ calls < MaxCalls
  /\ calls' = calls + 1
  /\ \E batchSize \in BatchSizes :
       call' = [call EXCEPT ![p] =
         [Idle EXCEPT !.op = "cleanup", !.pc = "cq_get", !.pre = Snapshot,
                      !.batchSize = batchSize]]
  /\ UNCHANGED <<disk, db, queue, clock>>

\* how the loop finished with one item: "resolved" and "unresolved" after
\* markAsProcessed(name, true / false) in the loop body, "failed" after the
\* catch block marked it, "aborted" when the catch block threw
Handled(name, how) == [name |-> name, how |-> how]

\* the loop head: the next item, or the end of the run
NextItem(c) ==
  IF Len(c.cleanupItems) = 0
  THEN Return(c, c.processedCount)
  ELSE [c EXCEPT !.pc = "cq_find", !.filename = Head(c.cleanupItems),
                 !.cleanupItems = Tail(c.cleanupItems), !.itemMetadata = Null]

\* cleanupRepository.getPending()
getPendingItems(p) ==
  LET c == call[p] IN
  /\ c.pc = "cq_get"
  /\ \E ok \in Answers(c) :
       IF ok
       THEN \E items \in getPending(queue, DefaultPendingLimit) :
              call' = [call EXCEPT ![p] =
                NextItem([c EXCEPT !.cleanupItems = items, !.batch = items,
                                   !.ops = Append(c.ops, Op("getPending", "ok"))])]
       ELSE call' = [call EXCEPT ![p] =
              Throw([c EXCEPT !.ops = Append(c.ops, Op("getPending", "fail"))],
                    Err(500, "Database error"))]
  /\ UNCHANGED <<disk, db, queue, clock, calls>>

\* imageRepository.findByName(item.name)
findItemMetadata(p) ==
  LET c == call[p] IN
  /\ c.pc = "cq_find"
  /\ \E ok \in Answers(c) :
       call' = [call EXCEPT ![p] =
         IF ok
         THEN [c EXCEPT !.pc = "cq_exists", !.itemMetadata = findByName(db, c.filename),
                        !.ops = Append(c.ops, Op("findByName", "ok"))]
         ELSE [c EXCEPT !.pc = "cq_catch",
                        !.ops = Append(c.ops, Op("findByName", "fail"))]]
  /\ UNCHANGED <<disk, db, queue, clock, calls>>

\* variant: an item without metadata is marked without deleting its file
ItemBranch_KeepFile(metadata, exists) ==
  [pc |-> "cq_mark", markSuccess |-> metadata = Null \/ exists]

\* variant: an item with metadata is marked processed whether or not its
\* file exists
ItemBranch_IgnoreMissingFile(metadata, exists) ==
  IF metadata = Null /\ exists
  THEN [pc |-> "cq_del", markSuccess |-> FALSE]
  ELSE [pc |-> "cq_mark", markSuccess |-> TRUE]

\* the branch of the loop body: without metadata the file is deleted if it
\* exists and the item is marked processed; with metadata the item is marked
\* processed exactly when the file exists
ItemBranch(metadata, exists) ==
  IF metadata = Null
  THEN IF exists THEN [pc |-> "cq_del", markSuccess |-> FALSE]
       ELSE [pc |-> "cq_mark", markSuccess |-> TRUE]
  ELSE [pc |-> "cq_mark", markSuccess |-> exists]

\* FileStorageService.fileExists(item.name) and the branch taken on it
checkFileExists(p) ==
  LET c == call[p]
      exists == fileExists(disk, c.filename)
      c1 == [c EXCEPT !.ops = Append(c.ops, Op("fileExists", IF exists THEN "true" ELSE "false"))]
  IN
  /\ c.pc = "cq_exists"
  /\ call' = [call EXCEPT ![p] =
       [c1 EXCEPT !.pc = ItemBranch(c.itemMetadata, exists).pc,
                  !.markSuccess = ItemBranch(c.itemMetadata, exists).markSuccess]]
  /\ UNCHANGED <<disk, db, queue, clock, calls>>

\* FileStorageService.deleteFile(item.name) for an item without metadata
deleteItemFile(p) ==
  LET c == call[p] IN
  /\ c.pc = "cq_del"
  /\ \E u \in {o \in UnlinkOutcomes(disk, c.filename) : ~c.reliable \/ o # "fail"} :
       /\ disk' = Unlink(disk, c.filename, u)
       /\ call' = [call EXCEPT ![p] =
            IF deleteFileThrows(u)
            THEN [c EXCEPT !.pc = "cq_catch", !.ops = Append(c.ops, Op("deleteFile", u))]
            ELSE [c EXCEPT !.pc = "cq_mark", !.markSuccess = TRUE,
                           !.ops = Append(c.ops, Op("deleteFile", u))]]
  /\ UNCHANGED <<db, queue, clock, calls>>

\* cleanupRepository.markAsProcessed(item.name, success), then processedCount++
markItem(p) ==
  LET c == call[p] IN
  /\ c.pc = "cq_mark"
  /\ \E ok \in Answers(c) :
       /\ queue' = IF ok THEN markAsProcessed(queue, c.filename, c.markSuccess) ELSE queue
       /\ call' = [call EXCEPT ![p] =
            IF ok
            THEN NextItem([c EXCEPT !.processedCount = c.processedCount + 1,
                                    !.handled = Append(c.handled,
                                      Handled(c.filename,
                                              IF c.markSuccess THEN "resolved" ELSE "unresolved")),
                                    !.ops = Append(c.ops, Op("markAsProcessed", "ok"))])
            ELSE [c EXCEPT !.pc = "cq_catch",
                           !.ops = Append(c.ops, Op("markAsProcessed", "fail"))]]
  /\ UNCHANGED <<disk, db, clock, calls>>

\* the catch block of the loop body: markAsProcessed(item.name, false); when
\* that throws too, the error leaves the loop and the run
catchItemError(p) ==
  LET c == call[p] IN
  /\ c.pc = "cq_catch"
  /\ \E ok \in Answers(c) :
       /\ queue' = IF ok THEN markAsProcessed(queue, c.filename, FALSE) ELSE queue
       /\ call' = [call EXCEPT ![p] =
            IF ok
            THEN NextItem([c EXCEPT !.handled = Append(c.handled, Handled(c.filename, "failed")),
                                    !.ops = Append(c.ops, Op("markAsProcessed(false)", "ok"))])
            ELSE Throw([c EXCEPT !.handled = Append(c.handled, Handled(c.filename, "aborted")),
                                 !.ops = Append(c.ops, Op("markAsProcessed(false)", "fail"))],
                       Err(500, "Database error"))]
  /\ UNCHANGED <<disk, db, clock, calls>>

(***************************************************************************)
(* CleanupQueueRepository.archiveOldProcessedItems(daysOld): one DELETE    *)
(* statement.  Time is counted in days: clock is the day of the latest     *)
(* statement that read the time, and an archival runs a day later.         *)
(***************************************************************************)
\* the default of the daysOld parameter
DefaultDaysOld == 30

\* the thresholds archivals are called with
ArchiveAges == {0, 1, DefaultDaysOld}

\* variant: the DELETE does not look at delete_state
ArchiveSelects_AnyState(entry, now, daysOld) == entry.fail_time < now - daysOld

\* WHERE delete_state = TRUE AND fail_time < NOW() - INTERVAL 'daysOld days'
ArchiveSelects(entry, now, daysOld) ==
  entry.delete_state /\ entry.fail_time < now - daysOld

archiveOldProcessedItems(p) ==
  /\ Finished(call[p])
  /\ calls < MaxCalls
  /\ calls' = calls + 1
  /\ clock' = clock + 1
  /\ \E daysOld \in ArchiveAges, ok \in BOOLEAN :
       LET c == [Idle EXCEPT !.op = "archive", !.pre = Snapshot, !.daysOld = daysOld]
           archived == {n \in DOMAIN queue : ArchiveSelects(queue[n], clock', daysOld)}
       IN IF ok
          THEN /\ queue' = [n \in DOMAIN queue \ archived |-> queue[n]]
               /\ call' = [call EXCEPT ![p] =
                    Return([c EXCEPT !.ops = <<Op("archive", "ok")>>], Cardinality(archived))]
          ELSE /\ queue' = queue
               /\ call' = [call EXCEPT ![p] =
                    Throw([c EXCEPT !.ops = <<Op("archive", "fail")>>],
                          Err(500, "Database error"))]
  /\ UNCHANGED <<disk, db>>

(***************************************************************************)
(* Specification: calls run one after another.                             *)
(***************************************************************************)
Caller == "a"

Step(p) ==
  \/ saveFile(p)
  \/ createMetadata(p)
  \/ rollbackUploadTransaction(p)
  \/ addToCleanupQueue(p)
  \/ findMetadata(p)
  \/ deleteMetadata(p)
  \/ deleteFile(p)
  \/ rollbackDeleteTransaction(p)
  \/ getPendingItems(p)
  \/ findItemMetadata(p)
  \/ checkFileExists(p)
  \/ deleteItemFile(p)
  \/ markItem(p)
  \/ catchItemError(p)

Next ==
  \/ uploadImage(Caller)
  \/ deleteImage(Caller)
  \/ processCleanupQueue(Caller)
  \/ archiveOldProcessedItems(Caller)
  \/ Step(Caller)

Spec == Init /\ [][Next]_vars

(***************************************************************************)
(* The same program started on stores that hold data from earlier runs:    *)
(* the metadata table has a row whose file is missing from the upload      *)
(* directory, and the cleanup queue has a pending entry for that name.     *)
(***************************************************************************)
StaleName == CHOOSE n \in AllNames : n.ext = EXT_TXT

StaleRow ==
  RowOf(UploadMetadata(StaleName, NoteTxt, validateFile(NoteTxt),
                       transformImage(NoteTxt.buffer, EXT_TXT, NoQuery, TRUE)))

InitStale ==
  /\ disk = <<>>
  /\ db = [n \in {StaleName} |-> StaleRow]
  /\ queue = [n \in {StaleName} |-> [fail_time |-> 1, delete_state |-> FALSE]]
  /\ clock = 1
  /\ call = [p \in Procs |-> Idle]
  /\ calls = 0

SpecStale == InitStale /\ [][Next]_vars

(***************************************************************************)
(* The queue processor run as a scheduled job, again and again, on a queue *)
(* with more pending entries than one getPending returns.  In the order of *)
(* their fail_time the entries are: an orphan file (no row), a consistent  *)
(* file (row and file), as many rows whose file is missing as getPending   *)
(* returns at most, a second orphan file, and a name in neither store.     *)
(* No store operation fails in these runs, so the catch block of the loop  *)
(* is never entered.                                                       *)
(***************************************************************************)
BacklogName(i) == generateUniqueFilename(i, EXT_TXT)

OldOrphan == BacklogName(1)

OldConsistent == BacklogName(2)

MissingFiles == {BacklogName(i) : i \in 3..(DefaultPendingLimit + 2)}

NewOrphan == BacklogName(DefaultPendingLimit + 3)

NewAbsent == BacklogName(DefaultPendingLimit + 4)

BacklogNames == {OldOrphan, OldConsistent, NewOrphan, NewAbsent} \cup MissingFiles

BacklogRow(n) ==
  RowOf(UploadMetadata(n, NoteTxt, validateFile(NoteTxt),
                       transformImage(NoteTxt.buffer, EXT_TXT, NoQuery, TRUE)))

InitBacklog ==
  /\ disk = [n \in {OldOrphan, OldConsistent, NewOrphan} |-> NoteTxt.buffer]
  /\ db = [n \in {OldConsistent} \cup MissingFiles |-> BacklogRow(n)]
  /\ queue = [n \in BacklogNames |-> [fail_time |-> n.id, delete_state |-> FALSE]]
  /\ clock = DefaultPendingLimit + 4
  /\ call = [p \in Procs |-> Idle]
  /\ calls = 0

\* processCleanupQueue started by the scheduler
runCleanupJob(p) ==
  /\ Finished(call[p])
  /\ call' = [call EXCEPT ![p] =
       [Idle EXCEPT !.op = "cleanup", !.pc = "cq_get", !.pre = Snapshot,
                    !.reliable = TRUE]]
  /\ UNCHANGED <<disk, db, queue, clock, calls>>

NextBacklog ==
  \/ runCleanupJob(Caller)
  \/ getPendingItems(Caller)
  \/ findItemMetadata(Caller)
  \/ checkFileExists(Caller)
  \/ deleteItemFile(Caller)
  \/ markItem(Caller)

SpecBacklog == InitBacklog /\ [][NextBacklog]_vars

\* the scheduler keeps starting runs and every started run goes on
LiveBacklog == SpecBacklog /\ WF_vars(NextBacklog)

(***************************************************************************)
(* Uploads alone, with every query string of TransformQueries.             *)
(***************************************************************************)
UploadStep(p) ==
  \/ saveFile(p)
  \/ createMetadata(p)
  \/ rollbackUploadTransaction(p)
  \/ addToCleanupQueue(p)

NextTransform ==
  \/ uploadImageTransformed(Caller)
  \/ UploadStep(Caller)

SpecTransform == Init /\ [][NextTransform]_vars

(***************************************************************************)
(* ImageTransformationService.parseResizeParameter applied to the resize   *)
(* strings WIDTHxHEIGHT, WIDTH, WIDTHx and xHEIGHT written from the        *)
(* numbers of DimensionValues, and to strings that are no such thing.      *)
(***************************************************************************)
DimensionValues == {0, 1, 199, 200, 201, 1000, 3999, 4000, 4001, 10000}

NamedDimensions == {NullDimension} \cup {Dimension(n) : n \in DimensionValues}

DigitOf(n) ==
  CASE n = 0 -> "0" [] n = 1 -> "1" [] n = 2 -> "2" [] n = 3 -> "3" [] n = 4 -> "4"
    [] n = 5 -> "5" [] n = 6 -> "6" [] n = 7 -> "7" [] n = 8 -> "8" [] OTHER -> "9"

\* the decimal digits of a natural number
RECURSIVE ToDecimal(_)
ToDecimal(n) ==
  IF n < 10 THEN <<DigitOf(n)>> ELSE Append(ToDecimal(n \div 10), DigitOf(n % 10))

DimensionText(d) == IF d.isNull THEN <<>> ELSE ToDecimal(d.value)

Separators == {<<>>, <<"x">>, <<"X">>}

MalformedResizes ==
  {<<"a">>, <<"3", "0", "0", "a">>, <<"x", "3", "0", "0", "x">>, <<"-", "3", "0", "0">>,
   <<"3", "0", "0", ",", "4", "0", "0">>, <<"3", "0", "0", "x", "x", "4", "0", "0">>}

InitResize ==
  /\ disk = <<>>
  /\ db = <<>>
  /\ queue = <<>>
  /\ clock = 0
  /\ calls = 0
  /\ \/ \E width \in NamedDimensions, height \in NamedDimensions, sep \in Separators :
          /\ sep = <<>> => height.isNull
          /\ ~(width.isNull /\ height.isNull /\ sep = <<>>)
          /\ call = [p \in Procs |->
               IF p = Caller
               THEN [Idle EXCEPT !.op = "parseResizeParameter", !.pc = "rs_parse",
                       !.queryParams = [NoQuery EXCEPT !.resize =
                          DimensionText(width) \o sep \o DimensionText(height)],
                       !.named = [width |-> width, height |-> height]]
               ELSE Idle]
     \/ \E resize \in MalformedResizes :
          call = [p \in Procs |->
               IF p = Caller
               THEN [Idle EXCEPT !.op = "parseResizeParameter", !.pc = "rs_parse",
                       !.queryParams = [NoQuery EXCEPT !.resize = resize]]
               ELSE Idle]

parseResize(p) ==
  LET c == call[p]
      dimensions == parseResizeParameter(c.queryParams.resize)
  IN
  /\ c.pc = "rs_parse"
  /\ call' = [call EXCEPT ![p] =
       IF dimensions.ok
       THEN Return(c, [width |-> dimensions.width, height |-> dimensions.height])
       ELSE Throw(c, dimensions.error)]
  /\ UNCHANGED <<disk, db, queue, clock, calls>>

NextResize == parseResize(Caller)

SpecResize == InitResize /\ [][NextResize]_vars

(***************************************************************************)
(* Two calls on one name that run at the same time: the first is an        *)
(* executeDeleteTransaction, the second either another one or a run of     *)
(* processCleanupQueue.  Each await of either call is a step, and the      *)
(* steps of the two interleave freely.  The name starts with or without    *)
(* blob, FileRecord and pending queue entry.                               *)
(***************************************************************************)
DeleteStep(p) ==
  \/ findMetadata(p)
  \/ deleteMetadata(p)
  \/ deleteFile(p)
  \/ rollbackDeleteTransaction(p)

SecondCalls == {"delete", "cleanup"}

InitInterleaved ==
  \E hasBlob \in BOOLEAN, hasRecord \in BOOLEAN, pending \in BOOLEAN,
     second \in SecondCalls :
    /\ disk = [n \in (IF hasBlob THEN {StaleName} ELSE {}) |-> NoteTxt.buffer]
    /\ db = [n \in (IF hasRecord THEN {StaleName} ELSE {}) |-> StaleRow]
    /\ queue = [n \in (IF pending THEN {StaleName} ELSE {}) |->
                 [fail_time |-> 1, delete_state |-> FALSE]]
    /\ clock = 1
    /\ calls = 0
    /\ call = [p \in Procs |->
         IF p = Caller \/ second = "delete"
         THEN [Idle EXCEPT !.op = "delete", !.pc = "del_find", !.filename = StaleName,
                           !.pre = [disk |-> disk, db |-> db, queue |-> queue]]
         ELSE [Idle EXCEPT !.op = "cleanup", !.pc = "cq_get",
                           !.pre = [disk |-> disk, db |-> db, queue |-> queue]]]

CleanupStep(p) ==
  \/ getPendingItems(p)
  \/ findItemMetadata(p)
  \/ checkFileExists(p)
  \/ deleteItemFile(p)
  \/ markItem(p)
  \/ catchItemError(p)

NextInterleaved ==
  \E p \in Procs :
    \/ DeleteStep(p)
    \/ addToCleanupQueue(p)
    \/ CleanupStep(p)

SpecInterleaved == InitInterleaved /\ [][NextInterleaved]_vars

(***************************************************************************)
(* Uploads and deletes with the error response of the controller, under    *)
(* either value of NODE_ENV.                                               *)
(***************************************************************************)
\* a PNG image that the client declares as image/gif in the multipart request
PngDeclaredGif == File(<<"a", ".", "p", "n", "g">>, PNG_SIGNATURE \o <<1>>, "image/gif")

RespondFiles == {PhotoPng, NoExtension, PngDeclaredGif}

RespondQueries == {NoQuery, [NoQuery EXCEPT !.convert = "jpg"]}

uploadImageAnswered(p) == UploadRequest(p, RespondFiles, RespondQueries)

\* the data of the success response of uploadImage
SuccessResponse(c) ==
  [filename |-> c.filename, originalname |-> c.file.originalname,
   mimetype |-> c.file.mimetype, size |-> Len(c.file.buffer)]

\* the catch block of uploadImage or deleteImage answers the caller
sendErrorResponse(p) ==
  LET c == call[p] IN
  /\ c.pc = "done" /\ c.thrown
  /\ c.op \in {"upload", "delete"}
  /\ c.response = Null
  /\ \E NODE_ENV \in Environments :
       call' = [call EXCEPT ![p] = [c EXCEPT !.response = ErrorResponseIn(NODE_ENV, c.error)]]
  /\ UNCHANGED <<disk, db, queue, clock, calls>>

NextRespond ==
  \/ uploadImageAnswered(Caller)
  \/ deleteImage(Caller)
  \/ UploadStep(Caller)
  \/ DeleteStep(Caller)
  \/ sendErrorResponse(Caller)

SpecRespond == Init /\ [][NextRespond]_vars

(***************************************************************************)
(* FileValidationService.validateFile, one check per step, applied to      *)
(* every file of ValidationFiles; and crossValidateExtensionAndMime        *)
(* applied to every pair of an allowed extension and a media type.  The    *)
(* buffer of a file holds the leading bytes of the upload, size is its     *)
(* byte count.  ops lists the checks that were evaluated.                  *)
(***************************************************************************)
ValidationNames ==
  {<<"a", ".", "p", "n", "g">>, <<"a", ".", "j", "p", "g">>,
   <<"a", ".", "j", "p", "e", "g">>, <<"a", ".", "g", "i", "f">>,
   <<"a", ".", "p", "d", "f">>, <<"n", ".", "t", "x", "t">>,
   <<"f", ".", "P", "N", "G">>, <<"a", ".", "w", "e", "b", "p">>,
   <<"e", ".", "p", "n", "g", ".", "j", "s">>, <<"b", ".", "j", "s", ".", "p", "n", "g">>,
   <<"x">>, <<"x", ".">>, <<".", "p", "n", "g">>, PngAsTxt.originalname}

ValidationBuffers ==
  {PNG_SIGNATURE \o <<1>>, JPEG_SIGNATURE \o <<1>>, GIF_SIGNATURE \o <<1>>,
   PDF_SIGNATURE \o <<1>>, <<104, 105>>, <<137, 80>>, <<>>,
   <<1>> \o PNG_SIGNATURE}

ValidationFiles ==
  {File(name, bytes, "application/octet-stream") :
     name \in ValidationNames, bytes \in ValidationBuffers}
  \cup {[File(name, bytes, "application/octet-stream") EXCEPT !.size = MAX_FILE_SIZE + 1] :
           name \in ValidationNames, bytes \in ValidationBuffers \ {<<>>, <<137, 80>>}}

MediaTypes ==
  {"image/jpeg", "image/png", "image/gif", "application/pdf", "text/plain", "image/webp"}

InitValidate ==
  /\ disk = <<>>
  /\ db = <<>>
  /\ queue = <<>>
  /\ clock = 0
  /\ calls = 0
  /\ \E file \in ValidationFiles, extension \in DOMAIN ALLOWED_FILE_TYPES,
        mimeType \in MediaTypes :
       call = [p \in Procs |->
                 IF p = Caller
                 THEN [Idle EXCEPT !.op = "validateFile", !.pc = "v_size", !.file = file]
                 ELSE [Idle EXCEPT !.op = "crossValidateExtensionAndMime",
                                   !.pc = "v_cross", !.extension = extension,
                                   !.mimeType = mimeType]]

\* the result object of validateFile
Descriptor(c) ==
  [isValid |-> TRUE, extension |-> c.extension, mimeType |-> c.mimeType,
   size |-> c.file.size]

\* 1. this.validateFileSize(file): the result is not looked at
checkFileSize(p) ==
  LET c == call[p]
      sizeResult == validateFileSize(c.file)
  IN
  /\ c.pc = "v_size"
  /\ call' = [call EXCEPT ![p] =
       [c EXCEPT !.pc = "v_ext",
                 !.ops = Append(c.ops, Op("validateFileSize",
                                          IF sizeResult.isValid THEN "pass" ELSE "fail"))]]
  /\ UNCHANGED <<disk, db, queue, clock, calls>>

\* 2. validateExtension, first part: extractExtension(filename)
checkExtension(p) ==
  LET c == call[p]
      extension == extractExtension(c.file.originalname)
  IN
  /\ c.pc = "v_ext"
  /\ call' = [call EXCEPT ![p] =
       IF extension.ok
       THEN [c EXCEPT !.pc = "v_allow", !.extension = extension.value,
                      !.ops = Append(c.ops, Op("extractExtension", "pass"))]
       ELSE Throw([c EXCEPT !.ops = Append(c.ops, Op("extractExtension", "fail"))],
                  extension.error)]
  /\ UNCHANGED <<disk, db, queue, clock, calls>>

\* 2. validateExtension, second part: the extension is a key of ALLOWED_FILES
checkAllowList(p) ==
  LET c == call[p]
      extension == validateExtension(c.file.originalname)
  IN
  /\ c.pc = "v_allow"
  /\ call' = [call EXCEPT ![p] =
       IF extension.ok
       THEN [c EXCEPT !.pc = "v_mime", !.ops = Append(c.ops, Op("allowList", "pass"))]
       ELSE Throw([c EXCEPT !.ops = Append(c.ops, Op("allowList", "fail"))],
                  extension.error)]
  /\ UNCHANGED <<disk, db, queue, clock, calls>>

\* 3. validateMimeType(file)
checkMimeType(p) ==
  LET c == call[p]
      detectedMimeType == validateMimeType(c.file)
  IN
  /\ c.pc = "v_mime"
  /\ call' = [call EXCEPT ![p] =
       IF detectedMimeType.ok
       THEN [c EXCEPT !.pc = "v_cross", !.mimeType = detectedMimeType.value,
                      !.ops = Append(c.ops, Op("validateMimeType", "pass"))]
       ELSE Throw([c EXCEPT !.ops = Append(c.ops, Op("validateMimeType", "fail"))],
                  detectedMimeType.error)]
  /\ UNCHANGED <<disk, db, queue, clock, calls>>

\* 4. crossValidateExtensionAndMime(extension, detectedMimeType)
checkCrossValidation(p) ==
  LET c == call[p]
      cross == crossValidateExtensionAndMime(c.extension, c.mimeType)
      c1 == [c EXCEPT !.ops = Append(c.ops, Op("crossValidateExtensionAndMime",
                                               IF cross.ok THEN "pass" ELSE "fail"))]
  IN
  /\ c.pc = "v_cross"
  /\ call' = [call EXCEPT ![p] =
       IF ~cross.ok THEN Throw(c1, cross.error)
       ELSE IF c.op = "validateFile" THEN [c1 EXCEPT !.pc = "v_sig"]
       ELSE Return(c1, [isValid |-> TRUE])]
  /\ UNCHANGED <<disk, db, queue, clock, calls>>

\* 5. validateFileSignature(file, detectedMimeType), then the result
checkFileSignature(p) ==
  LET c == call[p]
      sig == validateFileSignature(c.file, c.mimeType)
  IN
  /\ c.pc = "v_sig"
  /\ call' = [call EXCEPT ![p] =
       IF sig.ok
       THEN Return([c EXCEPT !.ops = Append(c.ops, Op("validateFileSignature", "pass"))],
                   Descriptor(c))
       ELSE Throw([c EXCEPT !.ops = Append(c.ops, Op("validateFileSignature", "fail"))],
                  sig.error)]
  /\ UNCHANGED <<disk, db, queue, clock, calls>>

ValidateStep(p) ==
  \/ checkFileSize(p)
  \/ checkExtension(p)
  \/ checkAllowList(p)
  \/ checkMimeType(p)
  \/ checkCrossValidation(p)
  \/ checkFileSignature(p)

NextValidate == \E p \in Procs : ValidateStep(p)

SpecValidate == InitValidate /\ [][NextValidate]_vars

(***************************************************************************)
(* Vocabulary of the properties.                                           *)
(***************************************************************************)
HasBlob(n) == n \in DOMAIN disk

HasRecord(n) == n \in DOMAIN db

Unresolved(n) == n \in DOMAIN queue /\ ~queue[n].delete_state

Issued(c, name) == \E i \in 1..Len(c.ops) : c.ops[i].op = name

IssuedWith(c, name, outcomes) ==
  \E i \in 1..Len(c.ops) : c.ops[i].op = name /\ c.ops[i].res \in outcomes

OpNames(c) == [i \in 1..Len(c.ops) |-> c.ops[i].op]

\* a finished executeUploadTransaction call
UploadDone(p) ==
  call[p].pc = "done" /\ call[p].op = "upload" /\ call[p].filename # Null

\* a finished executeDeleteTransaction call
DeleteDone(p) == call[p].pc = "done" /\ call[p].op = "delete"

StoresUnchanged(c) == disk = c.pre.disk /\ db = c.pre.db /\ queue = c.pre.queue

(***************************************************************************)
(* C1: whenever no call is in progress, every name either has a blob       *)
(* exactly when it has a FileRecord, or has an unresolved entry in the     *)
(* cleanup queue.                                                          *)
(***************************************************************************)
C1_StoresAgreeOrQueued ==
  NoCallInProgress =>
    \A n \in AllNames : (HasBlob(n) <=> HasRecord(n)) \/ Unresolved(n)

(***************************************************************************)
(* C2: an upload transaction that returns success leaves both the blob and *)
(* the FileRecord of its name; one that throws leaves neither of them, or  *)
(* an unresolved queue entry for the name.                                 *)
(***************************************************************************)
C2_UploadOutcome ==
  \A p \in Procs :
    UploadDone(p) =>
      LET c == call[p] n == c.filename IN
      IF c.thrown
      THEN (~HasBlob(n) /\ ~HasRecord(n)) \/ Unresolved(n)
      ELSE HasBlob(n) /\ HasRecord(n)

(***************************************************************************)
(* C3: upload, blob written, metadata insert failed, compensating blob     *)
(* deletion succeeded: the caller gets the metadata store's error, neither *)
(* the blob nor the FileRecord exists, the queue is unchanged.             *)
(***************************************************************************)
CompensatedUpload(c) ==
  /\ Len(c.ops) = 3
  /\ c.ops[1] = Op("saveFile", "ok")
  /\ c.ops[2].op = "create" /\ c.ops[2].res \in {"fail", "conflict"}
  /\ c.ops[3].op = "deleteFile" /\ c.ops[3].res \in {"ok", "enoent"}

C3_CompensatedUploadIsEmpty ==
  \A p \in Procs :
    UploadDone(p) /\ CompensatedUpload(call[p]) =>
      LET c == call[p] n == c.filename IN
      /\ c.thrown /\ c.error = CreateError(c.ops[2].res)
      /\ ~HasBlob(n) /\ ~HasRecord(n)
      /\ queue = c.pre.queue

(***************************************************************************)
(* C4: upload, metadata insert failed, compensating blob deletion failed:  *)
(* before the call returns the enqueue of the name is issued, which (when  *)
(* the queue insert itself does not fail) leaves an unresolved entry with  *)
(* a fresh fail_time, and the caller gets the metadata store's error.      *)
(***************************************************************************)
FailedCompensation(c) ==
  /\ IssuedWith(c, "create", {"fail", "conflict"})
  /\ IssuedWith(c, "deleteFile", {"fail"})

C4_FailedCompensationEnqueues ==
  \A p \in Procs :
    UploadDone(p) /\ FailedCompensation(call[p]) =>
      LET c == call[p] n == c.filename IN
      /\ OpNames(c) = <<"saveFile", "create", "deleteFile", "add">>
      /\ c.thrown /\ c.error = CreateError(c.ops[2].res)
      /\ c.ops[4].res = "ok" =>
           /\ Unresolved(n)
           /\ \A m \in DOMAIN c.pre.queue : c.pre.queue[m].fail_time < queue[n].fail_time

C4_Witness ==
  \E p \in Procs :
    /\ UploadDone(p) /\ FailedCompensation(call[p])
    /\ call[p].ops[4] = Op("add", "ok")
    /\ Unresolved(call[p].filename) /\ HasBlob(call[p].filename)

(***************************************************************************)
(* C5: upload whose content-store write fails: the caller gets a storage   *)
(* error with status 500, no metadata operation and no enqueue is issued,  *)
(* and the name is in neither store afterwards.                            *)
(***************************************************************************)
SaveFailed(c) == IssuedWith(c, "saveFile", WriteOutcomes \ {"ok"})

C5_SaveFailureIsTerminal ==
  \A p \in Procs :
    UploadDone(p) /\ SaveFailed(call[p]) =>
      LET c == call[p] n == c.filename IN
      /\ c.thrown /\ c.error.statusCode = 500
      /\ OpNames(c) = <<"saveFile">>
      /\ db = c.pre.db /\ queue = c.pre.queue
      /\ ~HasBlob(n) /\ ~HasRecord(n)

(***************************************************************************)
(* C6: after a successful upload the blob under the generated name is the  *)
(* final buffer (the transformed one, or the uploaded bytes when no        *)
(* transformation was asked for), and the FileRecord carries that name,    *)
(* the length of the stored blob and the path derived from the name.       *)
(***************************************************************************)
FinalBuffer(c) ==
  IF hasAnyTransformation(c.queryParams)
  THEN SharpToBuffer(c.file.buffer,
         IF c.queryParams.convert # "" \/ c.queryParams.type # ""
         THEN applyFormatConversion(IF c.queryParams.convert # "" THEN c.queryParams.convert
                                    ELSE c.queryParams.type).sharpFormat
         ELSE DetectedFormat(c.file.buffer))
  ELSE c.file.buffer

C6_UploadRoundTrip ==
  \A p \in Procs :
    UploadDone(p) /\ ~call[p].thrown =>
      LET c == call[p] n == c.filename IN
      /\ HasBlob(n) /\ disk[n] = FinalBuffer(c)
      /\ HasRecord(n)
      /\ db[n].name = n
      /\ db[n].size = Len(disk[n])
      /\ db[n].path = [dir |-> "/uploads/", file |-> n]

C6_Witness ==
  \E p \in Procs :
    /\ UploadDone(p) /\ ~call[p].thrown
    /\ hasAnyTransformation(call[p].queryParams)
    /\ Len(call[p].file.buffer) # Len(disk[call[p].filename])

(***************************************************************************)
(* C7: delete of a name that has no FileRecord: the call fails and changes *)
(* nothing, it issues no operation but the metadata read, even when a blob *)
(* exists under the name, and the read's answer "no row" gives a not-found *)
(* error with status 404.                                                  *)
(***************************************************************************)
C7_DeleteUnknownName ==
  \A p \in Procs :
    DeleteDone(p) /\ call[p].filename \notin DOMAIN call[p].pre.db =>
      LET c == call[p] IN
      /\ c.thrown
      /\ OpNames(c) = <<"findByName">>
      /\ StoresUnchanged(c)
      /\ c.ops[1].res = "null" => c.error.statusCode = 404

C7_Witness ==
  \E p \in Procs :
    /\ DeleteDone(p) /\ call[p].filename \notin DOMAIN call[p].pre.db
    /\ HasBlob(call[p].filename)
    /\ call[p].ops[1].res = "null" /\ call[p].error.statusCode = 404

(***************************************************************************)
(* C8: delete whose metadata-row deletion fails: the call aborts with that *)
(* error, the three stores are unchanged, and neither the blob deletion    *)
(* nor a compensation is issued.                                           *)
(***************************************************************************)
MetadataDeleteFailed(c) == IssuedWith(c, "delete", {"fail", "notfound"})

C8_MetadataDeleteFailure ==
  \A p \in Procs :
    DeleteDone(p) /\ MetadataDeleteFailed(call[p]) =>
      LET c == call[p] IN
      /\ c.thrown /\ c.error = DeleteError(c.ops[2].res)
      /\ OpNames(c) = <<"findByName", "delete">>
      /\ StoresUnchanged(c)

C8_Witness ==
  \E p \in Procs :
    /\ DeleteDone(p) /\ MetadataDeleteFailed(call[p])
    /\ HasRecord(call[p].filename) /\ HasBlob(call[p].filename)

(***************************************************************************)
(* C9: delete of a name whose FileRecord exists and whose blob is already  *)
(* absent: once the row is deleted the missing blob raises no error, the   *)
(* call succeeds, no compensation is issued and nothing is enqueued.       *)
(***************************************************************************)
BlobAlreadyAbsent(c) ==
  /\ c.filename \in DOMAIN c.pre.db
  /\ c.filename \notin DOMAIN c.pre.disk
  /\ IssuedWith(c, "delete", {"ok"})

C9_IdempotentDelete ==
  \A p \in Procs :
    DeleteDone(p) /\ BlobAlreadyAbsent(call[p]) =>
      LET c == call[p] n == c.filename IN
      /\ ~c.thrown /\ c.result.success
      /\ c.ops = <<Op("findByName", "row"), Op("delete", "ok"), Op("deleteFile", "enoent")>>
      /\ ~HasRecord(n) /\ ~HasBlob(n)
      /\ queue = c.pre.queue

C9_Witness ==
  \E p \in Procs :
    /\ DeleteDone(p) /\ BlobAlreadyAbsent(call[p])
    /\ ~call[p].thrown /\ ~HasRecord(call[p].filename)

(***************************************************************************)
(* C10: delete, row deleted, blob deletion failed for a reason other than  *)
(* absence, compensating re-insert succeeded: the caller gets the blob     *)
(* deletion's error, the blob and a FileRecord of the name both exist and  *)
(* nothing is enqueued.                                                    *)
(***************************************************************************)
CompensatedDelete(c) ==
  c.ops = <<Op("findByName", "row"), Op("delete", "ok"),
            Op("deleteFile", "fail"), Op("create", "ok")>>

C10_CompensatedDeleteKeepsFile ==
  \A p \in Procs :
    DeleteDone(p) /\ IssuedWith(call[p], "deleteFile", {"fail"})
                  /\ IssuedWith(call[p], "create", {"ok"}) =>
      LET c == call[p] n == c.filename IN
      /\ CompensatedDelete(c)
      /\ c.thrown /\ c.error = UnlinkError
      /\ HasBlob(n) /\ disk[n] = c.pre.disk[n]
      /\ HasRecord(n) /\ db[n].name = n
      /\ queue = c.pre.queue

C10_Witness ==
  \E p \in Procs :
    /\ DeleteDone(p) /\ CompensatedDelete(call[p])
    /\ HasBlob(call[p].filename) /\ HasRecord(call[p].filename)

(***************************************************************************)
(* C11: delete whose blob deletion fails and whose compensating re-insert  *)
(* fails too: the name is enqueued, and then the caller gets the critical  *)
(* error, which is none of the errors of the ordinary failures (the        *)
(* unlink error, the not-found errors, the database and storage errors).   *)
(* The metadata is gone and the blob remains; the entry is in the queue,   *)
(* unresolved, when the queue insert itself succeeds.                      *)
(***************************************************************************)
FailedReinsert(c) ==
  /\ Len(c.ops) >= 4
  /\ c.ops[3] = Op("deleteFile", "fail")
  /\ c.ops[4].op = "create" /\ c.ops[4].res \in {"fail", "conflict"}

OrdinaryErrors ==
  {UnlinkError, NotFoundError, Err(500, "File storage failed")}
    \cup {DeleteError(o) : o \in {"fail", "notfound"}}
    \cup {CreateError(o) : o \in {"fail", "conflict"}}

C11_FailedReinsertIsCritical ==
  \A p \in Procs :
    DeleteDone(p) /\ FailedReinsert(call[p]) =>
      LET c == call[p] n == c.filename IN
      /\ OpNames(c) = <<"findByName", "delete", "deleteFile", "create", "add">>
      /\ c.thrown /\ c.error = CriticalError /\ c.error \notin OrdinaryErrors
      /\ HasBlob(n) /\ ~HasRecord(n)
      /\ c.ops[5].res = "ok" => Unresolved(n)

C11_Witness ==
  \E p \in Procs :
    /\ DeleteDone(p) /\ FailedReinsert(call[p])
    /\ call[p].ops[5] = Op("add", "ok")
    /\ call[p].error = CriticalError /\ Unresolved(call[p].filename)

(***************************************************************************)
(* C12: a delete that returns success leaves neither the FileRecord nor    *)
(* the blob of the name, and its result carries the FileRecord as it was   *)
(* before the deletion, whose display name (the name the file was          *)
(* uploaded under) the response echoes.                                    *)
(***************************************************************************)
\* the display names of the uploads
DisplayNames == {f.originalname : f \in UploadFiles}

\* ImageController.deleteImage: originalName of the success response
ResponseOriginalName(result) == result.originalMetadata.mask_name

DeleteSucceeded(p) == DeleteDone(p) /\ ~call[p].thrown

C12_DeleteSuccessRemovesBoth ==
  \A p \in Procs :
    DeleteSucceeded(p) =>
      LET c == call[p] n == c.filename IN
      /\ ~HasBlob(n) /\ ~HasRecord(n)
      /\ n \in DOMAIN c.pre.db /\ c.result.originalMetadata = c.pre.db[n]

C12_DeleteSuccess ==
  /\ C12_DeleteSuccessRemovesBoth
  /\ \A p \in Procs :
       DeleteSucceeded(p) => ResponseOriginalName(call[p].result) \in DisplayNames

(***************************************************************************)
(* Runs of the queue processor.                                            *)
(***************************************************************************)
\* a call of processCleanupQueue, running or finished
CleanupCall(p) == call[p].op = "cleanup"

\* a finished call of processCleanupQueue
CleanupDone(p) == call[p].pc = "done" /\ CleanupCall(p)

Resolved(n) == n \in DOMAIN queue /\ queue[n].delete_state

\* the items the loop body handled without any operation failing
Unfailed(c) == {i \in 1..Len(c.handled) : c.handled[i].how \in {"resolved", "unresolved"}}

(***************************************************************************)
(* C13: a pending entry the processor handles (no operation failing) whose *)
(* name has no FileRecord: the blob, if there is one, is deleted and the   *)
(* entry is marked resolved in either case; afterwards neither store holds *)
(* the name.                                                               *)
(***************************************************************************)
C13_OrphanIsRemovedAndResolved ==
  \A p \in Procs :
    CleanupCall(p) =>
      LET c == call[p] IN
      \A i \in Unfailed(c) :
        LET n == c.handled[i].name IN
        n \notin DOMAIN c.pre.db =>
          /\ c.handled[i].how = "resolved"
          /\ Resolved(n)
          /\ ~HasBlob(n) /\ ~HasRecord(n)

C13_Witness ==
  \E p \in Procs :
    /\ CleanupDone(p)
    /\ \E i \in Unfailed(call[p]) :
         LET n == call[p].handled[i].name IN
         /\ n \notin DOMAIN call[p].pre.db /\ n \in DOMAIN call[p].pre.disk
         /\ ~HasBlob(n) /\ Resolved(n)

\* the same for an entry whose blob was absent already
C13_WitnessNoBlob ==
  \E p \in Procs :
    /\ CleanupDone(p)
    /\ \E i \in Unfailed(call[p]) :
         LET n == call[p].handled[i].name IN
         /\ n \notin DOMAIN call[p].pre.db /\ n \notin DOMAIN call[p].pre.disk
         /\ Resolved(n)

(***************************************************************************)
(* C14: a pending entry the processor handles whose name has a FileRecord  *)
(* but no blob stays unresolved after the run, getPending still returns    *)
(* it, and the processor changes neither the FileRecord nor the content    *)
(* store for the name.                                                     *)
(***************************************************************************)
\* getPending, as the processor calls it, returns name n
StillPending(n) ==
  \E items \in getPending(queue, DefaultPendingLimit) :
    \E i \in 1..Len(items) : items[i] = n

RecordWithoutBlob(c, n) == n \in DOMAIN c.pre.db /\ n \notin DOMAIN c.pre.disk

C14_MissingBlobStaysUnresolved ==
  \A p \in Procs :
    CleanupCall(p) =>
      LET c == call[p] IN
      \A i \in 1..Len(c.handled) :
        LET n == c.handled[i].name IN
        RecordWithoutBlob(c, n) =>
          /\ c.handled[i].how # "resolved"
          /\ Unresolved(n) /\ StillPending(n)
          /\ HasRecord(n) /\ db[n] = c.pre.db[n]
          /\ ~HasBlob(n)

C14_Witness ==
  \E p \in Procs :
    /\ CleanupDone(p) /\ ~call[p].thrown
    /\ \E i \in 1..Len(call[p].handled) :
         LET n == call[p].handled[i].name IN
         /\ RecordWithoutBlob(call[p], n)
         /\ call[p].handled[i].how = "unresolved"
         /\ Unresolved(n) /\ HasRecord(n) /\ ~HasBlob(n)

(***************************************************************************)
(* C15: after a run of the processor has returned, every entry that was    *)
(* pending when the run began and whose stores agreed (blob and FileRecord *)
(* both present, or both absent) is marked resolved.                       *)
(*                                                                         *)
(* C15_AgreeingEntriesResolved is the statement as it stands.  It fails    *)
(* for an entry that getPending did not return because as many older       *)
(* entries were pending as one call returns at most.  The amended          *)
(* statement excepts such an entry, and an entry for which an operation    *)
(* failed while it was handled (it went through the catch block).          *)
(***************************************************************************)
PendingAtStart(c) == PendingNames(c.pre.queue)

AgreedAtStart(c, n) == (n \in DOMAIN c.pre.disk) <=> (n \in DOMAIN c.pre.db)

InBatch(c, n) == \E i \in 1..Len(c.batch) : c.batch[i] = n

\* the run went through the catch block for n
FailedItem(c, n) == \E i \in 1..Len(c.handled) : c.handled[i] = Handled(n, "failed")

\* the batch was full of entries at least as old as n
BeyondBatch(c, n) ==
  /\ ~InBatch(c, n)
  /\ Len(c.batch) = DefaultPendingLimit
  /\ \A i \in 1..Len(c.batch) :
       c.pre.queue[c.batch[i]].fail_time <= c.pre.queue[n].fail_time

Repairable(n) == ~HasRecord(n) \/ HasBlob(n)

Reconciled(n) == Resolved(n) /\ (HasBlob(n) <=> HasRecord(n))

\* the entries of the backlog that are ever repairable: a row whose file is
\* missing stays so, the processor writes no file and no row
RepairableNames == BacklogNames \ MissingFiles

MissingFilesStayUnrepairable == \A n \in MissingFiles : ~Repairable(n)

C16_EventualReconciliation ==
  \A n \in RepairableNames : (Unresolved(n) /\ Repairable(n)) ~> Reconciled(n)

\* the entries that are not behind a full batch of older unrepairable ones
\* are reconciled
C16_OldestAreReconciled ==
  \A n \in {OldOrphan, OldConsistent} : (Unresolved(n) /\ Repairable(n)) ~> Reconciled(n)

(***************************************************************************)
(* C17: the entries of a batch are handled independently: an entry for     *)
(* which an operation fails is left unresolved, and every later entry of   *)
(* the batch is still handled in the same run.                             *)
(***************************************************************************)
\* a finished run whose getPending returned a batch
BatchDone(p) == CleanupDone(p) /\ IssuedWith(call[p], "getPending", {"ok"})

\* the loop finished with entry n of the batch
WasHandled(c, n) == \E i \in 1..Len(c.handled) : c.handled[i].name = n

FailedEntriesStayUnresolved ==
  \A p \in Procs :
    CleanupCall(p) =>
      \A i \in 1..Len(call[p].handled) :
        call[p].handled[i].how \in {"failed", "aborted"} =>
          Unresolved(call[p].handled[i].name)

C17_EntriesHandledIndependently ==
  /\ FailedEntriesStayUnresolved
  /\ \A p \in Procs :
       BatchDone(p) => \A i \in 1..Len(call[p].batch) : WasHandled(call[p], call[p].batch[i])

\* the same, for the runs in which the catch block itself did not fail
C17_UnlessCatchFails ==
  \A p \in Procs :
    BatchDone(p) /\ ~call[p].thrown =>
      \A i \in 1..Len(call[p].batch) : WasHandled(call[p], call[p].batch[i])

(***************************************************************************)
(* C18: a run of the processor handles at most as many pending entries as  *)
(* the batch size its caller gave, and returns the number of entries it    *)
(* processed.                                                              *)
(***************************************************************************)
\* a finished run that returned its count
RunReturned(p) == BatchDone(p) /\ ~call[p].thrown

C18_ReturnsProcessedCount ==
  \A p \in Procs :
    RunReturned(p) => call[p].result = Cardinality(Unfailed(call[p]))

C18_AtMostDefaultLimit ==
  \A p \in Procs : CleanupCall(p) => Len(call[p].batch) <= DefaultPendingLimit

C18_BatchSizeAndCount ==
  /\ C18_ReturnsProcessedCount
  /\ \A p \in Procs :
       RunReturned(p) =>
         /\ Len(call[p].batch) <= call[p].batchSize
         /\ Len(call[p].handled) <= call[p].batchSize

(***************************************************************************)
(* C19: the queue holds at most one entry per name: an add of a name never *)
(* adds more than the entry of that name, and an add of a name that is     *)
(* queued already refreshes the fail_time of its entry and leaves it       *)
(* unresolved, also when the entry was resolved; no other entry changes.   *)
(***************************************************************************)
\* the step of call p is a CleanupQueueRepository.add that succeeded
AddSucceeds(p) ==
  /\ call[p].pc \in {"up_rb_enq_db", "up_rb_enq", "del_rb_enq"}
  /\ Len(call'[p].ops) = Len(call[p].ops) + 1
  /\ call'[p].ops[Len(call'[p].ops)] = Op("add", "ok")

C19_AddIsUpsert ==
  [][\A p \in Procs :
       AddSucceeds(p) =>
         LET n == call[p].filename IN
         /\ DOMAIN queue' = DOMAIN queue \cup {n}
         /\ ~queue'[n].delete_state
         /\ n \in DOMAIN queue => queue'[n].fail_time > queue[n].fail_time
         /\ \A m \in DOMAIN queue : queue'[m].fail_time >= queue[m].fail_time
         /\ \A m \in DOMAIN queue \ {n} : queue'[m] = queue[m]]_vars

\* a name whose entry was resolved has been added again
C19_Witness ==
  \E p \in Procs :
    /\ Finished(call[p]) /\ IssuedWith(call[p], "add", {"ok"})
    /\ LET n == call[p].filename IN
       /\ n \in DOMAIN call[p].pre.queue /\ call[p].pre.queue[n].delete_state
       /\ Unresolved(n)
       /\ queue[n].fail_time > call[p].pre.queue[n].fail_time

(***************************************************************************)
(* C20: an unresolved entry is never removed from the queue.  A step of    *)
(* the processor leaves every entry in the queue with its fail_time, and   *)
(* an entry leaves the queue only in an archival, which removes only       *)
(* entries that are resolved and older than its threshold.                 *)
(***************************************************************************)
\* the step is an archival by p
ArchivalStep(p) == call'[p].op = "archive" /\ calls' = calls + 1

\* the step is a step of a run of the processor
ProcessorStep(p) == call[p].op = "cleanup" /\ ~Finished(call[p])

C20_UnresolvedNeverRemoved ==
  [][/\ \A n \in DOMAIN queue :
          n \notin DOMAIN queue' =>
            /\ queue[n].delete_state
            /\ \E p \in Procs :
                 /\ ArchivalStep(p)
                 /\ queue[n].fail_time < clock' - call'[p].daysOld
     /\ \A p \in Procs :
          ProcessorStep(p) =>
            /\ DOMAIN queue' = DOMAIN queue
            /\ \A n \in DOMAIN queue : queue'[n].fail_time = queue[n].fail_time]_vars

\* an archival removed an entry and an unresolved entry is still queued
C20_Witness ==
  \E p \in Procs :
    /\ call[p].op = "archive" /\ call[p].pc = "done" /\ ~call[p].thrown
    /\ call[p].result >= 1
    /\ \E n \in DOMAIN call[p].pre.queue :
         ~call[p].pre.queue[n].delete_state /\ Unresolved(n)

(***************************************************************************)
(* C21: a failing enqueue is not escalated: addToCleanupQueue does not     *)
(* throw, and the upload or delete ends with the error it ends with when   *)
(* the enqueue succeeds (the metadata store's error for an upload, the     *)
(* critical error for a delete); the queue is left as it was.              *)
(***************************************************************************)
EnqueueFailed(c) == IssuedWith(c, "add", {"fail"})

\* the error of a call that went through addToCleanupQueue when the enqueue
\* succeeds (C4, C11)
ErrorAfterEnqueue(c) ==
  IF c.op = "upload" THEN CreateError(c.ops[2].res) ELSE CriticalError

C21_FailedEnqueueNotEscalated ==
  \A p \in Procs :
    Finished(call[p]) /\ Issued(call[p], "add") =>
      LET c == call[p] IN
      /\ c.ops[Len(c.ops)].op = "add"
      /\ c.thrown /\ c.error = ErrorAfterEnqueue(c)
      /\ EnqueueFailed(c) => queue = c.pre.queue

C21_Witness ==
  \E p \in Procs :
    /\ UploadDone(p) /\ EnqueueFailed(call[p])
    /\ call[p].error = CreateError(call[p].ops[2].res)
    /\ ~Unresolved(call[p].filename)

C21_WitnessDelete ==
  \E p \in Procs :
    DeleteDone(p) /\ EnqueueFailed(call[p]) /\ call[p].error = CriticalError

(***************************************************************************)
(* C22: a failing compensation is not swallowed.  As stated: in the upload *)
(* (blob deletion after a failed insert) and in the delete (re-insert      *)
(* after a failed blob deletion) the name is enqueued and the caller gets  *)
(* the critical error.  Amended: the enqueue is issued in both, the        *)
(* delete ends with the critical error, and the upload ends with the       *)
(* metadata store's error.                                                 *)
(***************************************************************************)
CompensationFailed(c) ==
  \/ c.op = "upload" /\ FailedCompensation(c)
  \/ c.op = "delete" /\ FailedReinsert(c)

ValidateDone(p) == call[p].op = "validateFile" /\ call[p].pc = "done"

\* the checks that were evaluated agree with validateFile taken as a whole
ValidateAgrees ==
  \A p \in Procs :
    ValidateDone(p) =>
      LET c == call[p] v == validateFile(c.file) IN
      IF c.thrown THEN ~v.isValid /\ v.error = c.error
      ELSE v = c.result

CheckOrder ==
  <<"validateFileSize", "extractExtension", "allowList", "validateMimeType",
    "crossValidateExtensionAndMime", "validateFileSignature">>

\* the position in CheckOrder of the first check, from position from on, that
\* file does not pass; Len(CheckOrder) + 1 when it passes them all.  The size
\* check is not passed by a file of more than MAX_FILE_SIZE bytes.
FirstFailure(file, from) ==
  LET extension == extractExtension(file.originalname)
      mimeType == validateMimeType(file)
  IN
  IF from <= 1 /\ file.size > MAX_FILE_SIZE THEN 1
  ELSE IF ~extension.ok THEN 2
  ELSE IF ~validateExtension(file.originalname).ok THEN 3
  ELSE IF ~mimeType.ok THEN 4
  ELSE IF ~crossValidateExtensionAndMime(extension.value, mimeType.value).ok THEN 5
  ELSE IF ~validateFileSignature(file, mimeType.value).ok THEN 6
  ELSE Len(CheckOrder) + 1

\* the checks evaluated are those of CheckOrder up to position k, and the
\* file is rejected exactly when k is the position of a check
StoppedAt(c, k) ==
  /\ OpNames(c) = SubSeq(CheckOrder, 1, IF k > Len(CheckOrder) THEN Len(CheckOrder) ELSE k)
  /\ c.thrown <=> k <= Len(CheckOrder)

(***************************************************************************)
(* C23: validateFile evaluates its checks in the order size, extension     *)
(* extraction, allow-list, media-type inference, cross-validation,         *)
(* signature; the first check the file does not pass rejects it and no     *)
(* later check is evaluated.                                               *)
(***************************************************************************)
C23_FirstFailureAborts ==
  \A p \in Procs :
    ValidateDone(p) => StoppedAt(call[p], FirstFailure(call[p].file, 1))

\* the five checks after the size check are evaluated in order, after the
\* size check, and each of them is a gate
C23_LaterChecksAreGates ==
  \A p \in Procs :
    ValidateDone(p) => StoppedAt(call[p], FirstFailure(call[p].file, 2))

\* checks are only ever evaluated in the order of CheckOrder
C23_ChecksInOrder ==
  \A p \in Procs :
    call[p].op = "validateFile" =>
      OpNames(call[p]) = SubSeq(CheckOrder, 1, Len(call[p].ops))

(***************************************************************************)
(* C24: validateFile rejects every file of more than MAX_FILE_SIZE bytes,  *)
(* whatever its name and content.                                          *)
(***************************************************************************)
C24_OversizedRejected ==
  \A p \in Procs :
    ValidateDone(p) /\ call[p].file.size > MAX_FILE_SIZE => call[p].thrown

\* the size check reports success for every file, and no rejection of
\* validateFile is about the size
C24_SizeCheckAlwaysPasses ==
  \A p \in Procs :
    call[p].op = "validateFile" /\ Len(call[p].ops) >= 1 =>
      call[p].ops[1] = Op("validateFileSize", "pass")

\* the suffixes of name that start at a '.' and hold no further '.'
LastSuffixes(name) ==
  {SubSeq(name, i, Len(name)) : i \in {i \in 1..Len(name) :
     name[i] = "." /\ \A j \in (i+1)..Len(name) : name[j] # "."}}

EvilName == <<"e", ".", "p", "n", "g", ".", "j", "s">>

(***************************************************************************)
(* C25: the extension used by validation is the lower-cased suffix of the  *)
(* name from its last '.'; a name without '.' or ending in '.' is          *)
(* rejected; the allow-list check passes exactly when the extension is a   *)
(* key of ALLOWED_FILE_TYPES; e.png.js is rejected on extension .js.       *)
(***************************************************************************)
C25_ExtensionIsLastSuffix ==
  \A p \in Procs :
    call[p].op = "validateFile" /\ Len(call[p].ops) >= 2 =>
      LET c == call[p]
          name == c.file.originalname
          suffixes == LastSuffixes(name)
      IN
      /\ c.ops[2].res = "fail" <=> (suffixes = {} \/ suffixes = {<<".">>})
      /\ c.ops[2].res = "fail" => c.thrown /\ c.error.statusCode = 400 /\ Len(c.ops) = 2
      /\ c.ops[2].res = "pass" => suffixes = {SubSeq(name, Len(name) - Len(c.extension) + 1, Len(name))}
                                   /\ c.extension = ToLowerCase(CHOOSE x \in suffixes : TRUE)
      /\ Len(c.ops) >= 3 =>
            /\ c.ops[3].res = "pass" <=> c.extension \in DOMAIN ALLOWED_FILE_TYPES
            /\ c.ops[3].res = "fail" => c.thrown /\ c.error.statusCode = 400 /\ Len(c.ops) = 3
      /\ name = EvilName /\ c.pc = "done" =>
            c.extension = EXT_JS /\ c.thrown /\ c.ops[3] = Op("allowList", "fail")

\* e.png.js rejected by the allow-list; F.PNG accepted under extension .png;
\* b.js.png accepted under .png; x and x. rejected for want of an extension
C25_Witness ==
  \E p \in Procs :
    /\ ValidateDone(p) /\ call[p].file.originalname = EvilName
    /\ call[p].thrown /\ call[p].extension = EXT_JS

C25_WitnessUpperCase ==
  \E p \in Procs :
    /\ ValidateDone(p) /\ call[p].file.originalname = <<"f", ".", "P", "N", "G">>
    /\ ~call[p].thrown /\ call[p].extension = EXT_PNG

C25_WitnessTwoDots ==
  \E p \in Procs :
    /\ ValidateDone(p) /\ call[p].file.originalname = <<"b", ".", "j", "s", ".", "p", "n", "g">>
    /\ ~call[p].thrown /\ call[p].extension = EXT_PNG

C25_WitnessNoExtension ==
  \E p \in Procs :
    /\ ValidateDone(p) /\ call[p].file.originalname \in {<<"x">>, <<"x", ".">>}
    /\ call[p].thrown /\ Len(call[p].ops) = 2

\* the magic-number prefixes registered for a media type
Registered(mimeType) ==
  IF mimeType \in DOMAIN FILE_SIGNATURES THEN FILE_SIGNATURES[mimeType] ELSE {}

HasPrefix(buffer, prefix) ==
  Len(buffer) >= Len(prefix) /\ SubSeq(buffer, 1, Len(prefix)) = prefix

\* a validateFile call whose signature check has been evaluated
SignatureChecked(p) ==
  /\ call[p].op = "validateFile"
  /\ Len(call[p].ops) = Len(CheckOrder)

(***************************************************************************)
(* C26: for a media type with registered magic-number prefixes the         *)
(* signature check accepts a buffer exactly when the buffer starts with    *)
(* one of them (a buffer shorter than the prefix never matches); for a     *)
(* type without registered prefix the buffer is accepted.                  *)
(***************************************************************************)
C26_SignatureIffPrefix ==
  \A p \in Procs :
    SignatureChecked(p) =>
      LET c == call[p]
          accepted == c.ops[Len(CheckOrder)].res = "pass"
          prefixes == Registered(c.mimeType)
      IN
      /\ prefixes = {} => accepted
      /\ prefixes # {} =>
            (accepted <=> \E prefix \in prefixes : HasPrefix(c.file.buffer, prefix))
      /\ (\A prefix \in prefixes : Len(c.file.buffer) < Len(prefix)) /\ prefixes # {}
            => ~accepted
      /\ accepted <=> ~c.thrown

\* a buffer holding the first two bytes of the PNG prefix, named a.png, rejected
C26_Witness ==
  \E p \in Procs :
    /\ SignatureChecked(p) /\ call[p].thrown
    /\ call[p].mimeType = "image/png" /\ call[p].file.buffer = <<137, 80>>

C26_WitnessAccepted ==
  \E p \in Procs :
    /\ SignatureChecked(p) /\ ~call[p].thrown /\ call[p].pc = "done"
    /\ call[p].mimeType = "image/jpeg" /\ HasPrefix(call[p].file.buffer, JPEG_SIGNATURE)

C26_WitnessSkipped ==
  \E p \in Procs :
    /\ SignatureChecked(p) /\ ~call[p].thrown /\ call[p].pc = "done"
    /\ call[p].mimeType = "text/plain" /\ call[p].file.buffer = <<>>

\* the call was rejected by the check named check
RejectedAt(c, check) ==
  c.pc = "done" /\ c.thrown /\ c.ops # <<>> /\ c.ops[Len(c.ops)] = Op(check, "fail")

(***************************************************************************)
(* C27: a rejection by the cross-validation and a rejection by the         *)
(* signature check give the caller the same status code and the same       *)
(* message.                                                                *)
(***************************************************************************)
C27_SameRejection ==
  \A p, q \in Procs :
    /\ RejectedAt(call[p], "crossValidateExtensionAndMime")
    /\ RejectedAt(call[q], "validateFileSignature")
    => /\ call[p].error = call[q].error
       /\ ErrorResponse(call[p].error) = ErrorResponse(call[q].error)
       /\ ErrorResponse(call[p].error) = [status |-> 400, error |-> HACKER_MESSAGE]

C27_Witness ==
  \E p, q \in Procs :
    /\ RejectedAt(call[p], "crossValidateExtensionAndMime")
    /\ RejectedAt(call[q], "validateFileSignature")

\* inside validateFile the media type is inferred from the name the extension
\* was taken from, so the cross-validation passes whenever it is reached
C27_CrossValidationPassesInValidateFile ==
  \A p \in Procs :
    call[p].op = "validateFile" => ~RejectedAt(call[p], "crossValidateExtensionAndMime")

\* the buffer starts with the PNG signature and the name ends in .txt
IsPngNamedTxt(file) ==
  /\ HasPrefix(file.buffer, PNG_SIGNATURE)
  /\ Len(file.originalname) > Len(EXT_TXT)
  /\ SubSeq(file.originalname, Len(file.originalname) - Len(EXT_TXT) + 1,
             Len(file.originalname)) = EXT_TXT

(***************************************************************************)
(* C28: a buffer that starts with the PNG signature, uploaded under a name *)
(* with extension .txt, is rejected at the cross-validation or signature   *)
(* stage and never reaches the content store or the metadata store.        *)
(***************************************************************************)
C28_PngNamedTxtRejected ==
  \A p \in Procs :
    call[p].op = "upload" /\ IsPngNamedTxt(call[p].file) =>
      /\ call[p].thrown /\ call[p].error = Err(400, HACKER_MESSAGE)
      /\ call[p].ops = <<>>
      /\ \A n \in DOMAIN disk : n.ext = EXT_TXT => ~HasPrefix(disk[n], PNG_SIGNATURE)
      /\ \A n \in DOMAIN db : db[n].mask_name # call[p].file.originalname

\* the same for validateFile alone
C28_PngNamedTxtRejectedByValidateFile ==
  \A p \in Procs :
    ValidateDone(p) /\ IsPngNamedTxt(call[p].file) =>
      \/ RejectedAt(call[p], "crossValidateExtensionAndMime")
      \/ RejectedAt(call[p], "validateFileSignature")

\* what happens instead: the upload succeeds, the PNG bytes are in the
\* content store under a .txt name and the record says text/plain
C28_PngStoredAsText ==
  \E p \in Procs :
    /\ UploadDone(p) /\ ~call[p].thrown /\ call[p].file = PngAsTxt
    /\ HasBlob(call[p].filename) /\ HasRecord(call[p].filename)
    /\ disk[call[p].filename] = PngAsTxt.buffer
    /\ db[call[p].filename].mime = "text/plain"

\* sample files that validation has to reject: a script behind a second
\* extension, text under an image name, a name without extension
RejectedSamples == {EvilPngJs, FakePng, NoExtension}

\* an uploadImage call, running or finished
UploadCall(p) == call[p].op = "upload"

\* the call has written nothing: no store operation was issued, no name was
\* generated and the three stores are as they were when the call began
NothingWritten(c) == c.ops = <<>> /\ c.filename = Null /\ StoresUnchanged(c)

(***************************************************************************)
(* C29: in uploadImage no content-store write, metadata insert or enqueue  *)
(* happens before validateFile has accepted the file, and when             *)
(* validateFile rejects the file none of them happens at all.              *)
(***************************************************************************)
C29_ValidationGatesWrites ==
  \A p \in Procs :
    UploadCall(p) =>
      LET c == call[p] IN
      /\ ~NothingWritten(c) =>
            validateFile(c.file).isValid /\ c.file \notin RejectedSamples
      /\ ~validateFile(c.file).isValid \/ c.file \in RejectedSamples =>
            /\ c.pc = "done" /\ c.thrown
            /\ c.error = validateFile(c.file).error
            /\ NothingWritten(c)

\* every step that changes a store is taken by a call whose file was accepted
C29_WritesOnlyAfterAcceptance ==
  [][\A p \in Procs :
       UploadCall(p) /\ (disk' # disk \/ db' # db \/ queue' # queue) /\ call'[p] # call[p]
         => validateFile(call[p].file).isValid /\ call[p].file \notin RejectedSamples]_vars

\* a rejected upload after an accepted one: the stores keep what the first
\* upload wrote and nothing else
C29_Witness ==
  \E p \in Procs :
    /\ UploadCall(p) /\ call[p].pc = "done" /\ call[p].thrown
    /\ call[p].file = EvilPngJs
    /\ NothingWritten(call[p])
    /\ disk # <<>> /\ db # <<>>

(***************************************************************************)
(* Failing transformations.                                                *)
(***************************************************************************)
InvalidFormats == {"bmp", "jpeg"}

InvalidResizes ==
  {<<"a">>, <<"x">>, <<"9", "0", "0", "0">>, <<"x", "1", "0", "0">>}

InvalidQualities == {<<"q">>, <<"3", "0">>, <<"1", "0", "1">>}

InvalidParameters(queryParams) ==
  \/ queryParams.convert \in InvalidFormats
  \/ queryParams.convert = "" /\ queryParams.type \in InvalidFormats
  \/ queryParams.resize \in InvalidResizes
  \/ queryParams.quality \in InvalidQualities

\* the upload reached transformImage with a transformation to apply
TransformationAttempted(c) ==
  /\ c.op = "upload"
  /\ validateFile(c.file).isValid
  /\ hasAnyTransformation(c.queryParams)
  /\ isTransformableImage(validateFile(c.file).mimeType)

TransformationFailed(c) ==
  TransformationAttempted(c) /\ (InvalidParameters(c.queryParams) \/ ~c.sharpOk)

(***************************************************************************)
(* C30: when the requested transformation fails (invalid format, resize or *)
(* quality parameter, or a failure of the image library) the upload is     *)
(* aborted with status 422 before a name is generated and before the       *)
(* content store, the metadata store or the queue is touched.              *)
(***************************************************************************)
C30_FailedTransformationAborts ==
  \A p \in Procs :
    TransformationFailed(call[p]) =>
      LET c == call[p] IN
      /\ c.pc = "done" /\ c.thrown
      /\ c.error.statusCode = 422
      /\ ErrorResponse(c.error).status = 422
      /\ NothingWritten(c)

\* a resize parameter below MIN_DIMENSION, after an upload that was stored
C30_Witness ==
  \E p \in Procs :
    /\ TransformationFailed(call[p]) /\ call[p].pc = "done"
    /\ call[p].queryParams.resize = <<"x", "1", "0", "0">>
    /\ disk # <<>>

C30_WitnessLibrary ==
  \E p \in Procs :
    /\ TransformationFailed(call[p]) /\ call[p].pc = "done"
    /\ ~InvalidParameters(call[p].queryParams) /\ ~call[p].sharpOk

C30_WitnessQuality ==
  \E p \in Procs :
    /\ TransformationFailed(call[p]) /\ call[p].pc = "done"
    /\ call[p].queryParams.quality = <<"3", "0">>

C30_WitnessFormat ==
  \E p \in Procs :
    /\ TransformationFailed(call[p]) /\ call[p].pc = "done"
    /\ call[p].queryParams.type = "bmp"

\* a valid transformation with a working library is stored
C30_WitnessTransformed ==
  \E p \in Procs :
    /\ UploadDone(p) /\ ~call[p].thrown
    /\ call[p].queryParams.resize = <<"3", "0", "0", "x", "4", "0", "0">>
    /\ HasBlob(call[p].filename)

(***************************************************************************)
(* Order of the store operations of one call.                              *)
(***************************************************************************)
\* the operation next may be issued by an upload right after prev
UploadFollows(prev, next) ==
  \/ prev = Op("saveFile", "ok") /\ next.op = "create"
  \/ prev.op = "create" /\ prev.res # "ok" /\ next.op = "deleteFile"
  \/ prev = Op("deleteFile", "fail") /\ next.op = "add"

\* the operation next may be issued by a delete right after prev
DeleteFollows(prev, next) ==
  \/ prev = Op("findByName", "row") /\ next.op = "delete"
  \/ prev = Op("delete", "ok") /\ next.op = "deleteFile"
  \/ prev = Op("deleteFile", "fail") /\ next.op = "create"
  \/ prev.op = "create" /\ prev.res # "ok" /\ next.op = "add"

InOrder(c) ==
  /\ c.ops # <<>> => c.ops[1].op = (IF c.op = "upload" THEN "saveFile" ELSE "findByName")
  /\ \A i \in 2..Len(c.ops) :
       IF c.op = "upload" THEN UploadFollows(c.ops[i-1], c.ops[i])
       ELSE DeleteFollows(c.ops[i-1], c.ops[i])

(***************************************************************************)
(* C31: within one call the store operations are issued one after the      *)
(* other in a fixed order: an upload issues the metadata insert only after *)
(* the blob write succeeded; a delete issues the metadata read, then the   *)
(* metadata delete, then the blob delete, each only after the one before   *)
(* it succeeded.                                                           *)
(***************************************************************************)
C31_OperationsInOrder ==
  \A p \in Procs : call[p].op \in {"upload", "delete"} => InOrder(call[p])

\* a step issues at most one operation, and only the call that takes it
C31_OneOperationPerStep ==
  [][\A p \in Procs :
       call'[p].op \in {"upload", "delete"} /\ call'[p].ops # call[p].ops =>
         \/ call'[p].ops = <<>>
         \/ /\ Len(call'[p].ops) = Len(call[p].ops) + 1
            /\ SubSeq(call'[p].ops, 1, Len(call[p].ops)) = call[p].ops]_vars

\* a delete that went through its three steps, after an upload that went
\* through its two
C31_Witness ==
  \E p \in Procs :
    /\ DeleteDone(p) /\ ~call[p].thrown
    /\ OpNames(call[p]) = <<"findByName", "delete", "deleteFile">>
    /\ call[p].pre.disk # <<>> /\ call[p].pre.db # <<>>

C31_WitnessUpload ==
  \E p \in Procs :
    /\ UploadDone(p) /\ ~call[p].thrown
    /\ call[p].ops = <<Op("saveFile", "ok"), Op("create", "ok")>>

(***************************************************************************)
(* Name collisions.                                                        *)
(***************************************************************************)
\* an upload whose generated name had a FileRecord when the call began
Collision(c) == c.op = "upload" /\ c.filename # Null /\ c.filename \in DOMAIN c.pre.db

\* the metadata insert of the upload failed
InsertFailed(c) ==
  c.op = "upload" /\ Len(c.ops) >= 2 /\ c.ops[2].op = "create" /\ c.ops[2].res # "ok"

(***************************************************************************)
(* C32: an upload whose generated name collides with an existing           *)
(* FileRecord fails at the metadata insert with a uniqueness violation     *)
(* (status 409), and is compensated like any other failed insert: the blob *)
(* just written is deleted.                                                *)
(***************************************************************************)
C32_CollisionIsOrdinaryFailure ==
  \A p \in Procs :
    LET c == call[p] IN
    /\ Collision(c) /\ Len(c.ops) >= 2 => c.ops[2] = Op("create", "conflict")
    /\ UploadDone(p) /\ InsertFailed(c) =>
         /\ c.thrown
         /\ c.error = (IF Collision(c) THEN Err(409, "File with this name already exists")
                       ELSE Err(500, "Database error"))
         /\ ErrorResponse(c.error).status = (IF Collision(c) THEN 409 ELSE 500)
         /\ Len(c.ops) >= 3 /\ c.ops[3].op = "deleteFile"
         /\ c.ops[3].res = "ok" => ~HasBlob(c.filename)
         /\ c.ops[3].res = "fail" <=> Issued(c, "add")
         /\ db = c.pre.db

C32_Witness ==
  \E p \in Procs :
    /\ UploadDone(p) /\ Collision(call[p])
    /\ call[p].ops = <<Op("saveFile", "ok"), Op("create", "conflict"), Op("deleteFile", "ok")>>
    /\ call[p].error.statusCode = 409

\* the same compensation after an insert that failed for another reason
C32_WitnessOrdinary ==
  \E p \in Procs :
    /\ UploadDone(p) /\ ~Collision(call[p])
    /\ call[p].ops = <<Op("saveFile", "ok"), Op("create", "fail"), Op("deleteFile", "ok")>>

\* the names that had both a FileRecord and a blob when the call began
ExistingFiles(c) == DOMAIN c.pre.db \cap DOMAIN c.pre.disk

\* name n has the FileRecord and the bytes it had when the call began
Intact(c, n) ==
  /\ HasRecord(n) /\ db[n] = c.pre.db[n]
  /\ HasBlob(n) /\ disk[n] = c.pre.disk[n]

(***************************************************************************)
(* C34: a failed executeUploadTransaction leaves every file that existed   *)
(* before the call intact: each name that had a FileRecord and a blob,     *)
(* the name being uploaded included, has the same FileRecord and the same  *)
(* bytes afterwards.                                                       *)
(***************************************************************************)
C34_FailedUploadKeepsExistingFiles ==
  \A p \in Procs :
    UploadDone(p) /\ call[p].thrown =>
      \A n \in ExistingFiles(call[p]) : Intact(call[p], n)

\* files under other names than the one being uploaded are left intact, and
\* so is every FileRecord
C34_OtherFilesIntact ==
  \A p \in Procs :
    UploadDone(p) /\ call[p].thrown =>
      /\ \A n \in ExistingFiles(call[p]) \ {call[p].filename} : Intact(call[p], n)
      /\ db = call[p].pre.db

\* what happens on a collision: the FileRecord is left without its blob, and
\* nothing is enqueued
C34_ExistingBlobDeleted ==
  \E p \in Procs :
    /\ UploadDone(p) /\ call[p].thrown /\ Collision(call[p])
    /\ call[p].filename \in ExistingFiles(call[p])
    /\ HasRecord(call[p].filename) /\ ~HasBlob(call[p].filename)
    /\ queue = <<>>

(***************************************************************************)
(* Error responses.                                                        *)
(***************************************************************************)
\* the controller has answered the failed call with status 500 or above
ServerErrorSent(c) == c.response # Null /\ c.response.status >= 500

\* the failed call ended with the critical error of a failed compensation
CriticalSent(c) == c.response # Null /\ c.error = CriticalError

GenericBody(status) == [status |-> status, error |-> "Internal server error"]

(***************************************************************************)
(* C33: the response to an upload or delete that failed with status 500 or *)
(* above carries only a generic message; for a critical inconsistency the  *)
(* detail of the error is never in the response, whatever NODE_ENV is.     *)
(***************************************************************************)
C33_ServerErrorsAreGeneric ==
  \A p \in Procs :
    ServerErrorSent(call[p]) => call[p].response = GenericBody(call[p].response.status)

\* the error field of such a response is generic under either NODE_ENV, and
\* the whole body is when NODE_ENV is not development
C33_ErrorFieldIsGeneric ==
  \A p \in Procs :
    ServerErrorSent(call[p]) =>
      /\ call[p].response.error = "Internal server error"
      /\ call[p].response \in
           {ErrorResponseIn(e, call[p].error) : e \in Environments}
      /\ ErrorResponseIn("production", call[p].error) = GenericBody(call[p].response.status)

\* under NODE_ENV = development the response to a critical inconsistency
\* has the message of the error in its details field
C33_CriticalDetailSent ==
  \E p \in Procs :
    /\ CriticalSent(call[p]) /\ call[p].op = "delete"
    /\ call[p].response.status = 500
    /\ "details" \in DOMAIN call[p].response
    /\ call[p].response.details = CriticalError.message

(***************************************************************************)
(* Calls that run at the same time.                                        *)
(***************************************************************************)
\* no store operation of the call failed (a read that finds nothing, a
\* delete that finds no row and an unlink that finds no file are answers)
NoFailure(c) == \A i \in 1..Len(c.ops) : c.ops[i].res # "fail"

\* both calls are executeDeleteTransaction calls and both have finished
TwoDeletesDone == \A p \in Procs : DeleteDone(p)

\* the name had a FileRecord and a blob when the two calls began
ExistedAtStart(n) ==
  \A p \in Procs : n \in DOMAIN call[p].pre.db /\ n \in DOMAIN call[p].pre.disk

(***************************************************************************)
(* C36: two executeDeleteTransaction calls for the same existing name,     *)
(* interleaved at any await, no store operation failing: at most one       *)
(* returns success, the other fails with a not-found error, and afterwards *)
(* neither store holds the name and nothing has been enqueued.             *)
(***************************************************************************)
C36_OneDeleteWins ==
  TwoDeletesDone /\ ExistedAtStart(StaleName) /\ (\A p \in Procs : NoFailure(call[p])) =>
    /\ \E p, q \in Procs :
         /\ p # q
         /\ ~call[p].thrown /\ call[p].result.filename = StaleName
         /\ call[q].thrown /\ call[q].error.statusCode = 404
         /\ ErrorResponse(call[q].error).status = 404
    /\ ~HasBlob(StaleName) /\ ~HasRecord(StaleName)
    /\ \A p \in Procs : queue = call[p].pre.queue /\ ~Issued(call[p], "add")

\* both calls read the FileRecord before either deleted it
C36_Witness ==
  /\ TwoDeletesDone /\ ExistedAtStart(StaleName)
  /\ \E p, q \in Procs :
       /\ call[p].ops = <<Op("findByName", "row"), Op("delete", "ok"), Op("deleteFile", "ok")>>
       /\ call[q].ops = <<Op("findByName", "row"), Op("delete", "notfound")>>

\* the second call began its read after the first had deleted the FileRecord
C36_WitnessLate ==
  /\ TwoDeletesDone /\ ExistedAtStart(StaleName)
  /\ \E p, q \in Procs :
       /\ ~call[p].thrown /\ NoFailure(call[p])
       /\ call[q].ops = <<Op("findByName", "null")>>

\* a processCleanupQueue run and an executeDeleteTransaction, both finished
DeleteAndCleanupDone ==
  \E p, q \in Procs : DeleteDone(p) /\ CleanupDone(q)

\* the name had a pending queue entry when the two calls began
PendingAtBegin(n) ==
  \A p \in Procs : n \in DOMAIN call[p].pre.queue /\ ~call[p].pre.queue[n].delete_state

Disagree(n) == HasRecord(n) # HasBlob(n)

(***************************************************************************)
(* C35: a processCleanupQueue run interleaved with an                      *)
(* executeDeleteTransaction (compensation included) on a name with a       *)
(* pending queue entry: once both have finished, a name whose stores       *)
(* disagree still has an unresolved entry.                                 *)
(***************************************************************************)
C35_DisagreementStaysQueued ==
  DeleteAndCleanupDone /\ PendingAtBegin(StaleName) =>
    (Disagree(StaleName) => Unresolved(StaleName))

\* it holds when no store operation of either call fails
C35_WithoutFailures ==
  DeleteAndCleanupDone /\ PendingAtBegin(StaleName)
    /\ (\A p \in Procs : NoFailure(call[p])) =>
    (Disagree(StaleName) => Unresolved(StaleName))

\* what happens instead: the processor read FileRecord and blob, the delete
\* then removed the FileRecord, failed to remove the blob, failed to
\* re-insert and enqueued the name, and the processor marked the entry
\* resolved: a blob without FileRecord whose entry is resolved
C35_ResolvedOverDisagreement ==
  \E p, q \in Procs :
    /\ DeleteDone(p) /\ CleanupDone(q) /\ PendingAtBegin(StaleName)
    /\ call[p].ops = <<Op("findByName", "row"), Op("delete", "ok"),
                        Op("deleteFile", "fail"), Op("create", "fail"), Op("add", "ok")>>
    /\ NoFailure(call[q]) /\ ~call[q].thrown
    /\ HasBlob(StaleName) /\ ~HasRecord(StaleName)
    /\ Resolved(StaleName)

(***************************************************************************)
(* The compensating re-insert of a delete.                                 *)
(***************************************************************************)
\* a finished delete whose rollback re-inserted the FileRecord
Reinserted(c) ==
  c.op = "delete" /\ c.pc = "done" /\ IssuedWith(c, "create", {"ok"})

ClientVisibleFields == {"name", "mask_name", "path", "mime", "size"}

(***************************************************************************)
(* C37: the FileRecord re-inserted by the delete compensation equals the   *)
(* record read in step 1 in name, display name (mask_name), path, media    *)
(* type and size.                                                          *)
(***************************************************************************)
C37_ReinsertedRecordIsOriginal ==
  \A p \in Procs :
    Reinserted(call[p]) =>
      LET c == call[p] IN
      /\ HasRecord(c.filename)
      /\ \A f \in ClientVisibleFields : db[c.filename][f] = c.originalMetadata[f]

\* name, path, media type and size are those of the record read in step 1
C37_OtherFieldsKept ==
  \A p \in Procs :
    Reinserted(call[p]) =>
      LET c == call[p] IN
      /\ HasRecord(c.filename)
      /\ \A f \in ClientVisibleFields \ {"mask_name"} :
           db[c.filename][f] = c.originalMetadata[f]

\* the display name of the re-inserted record is NULL
C37_DisplayNameLost ==
  \E p \in Procs :
    /\ Reinserted(call[p])
    /\ call[p].originalMetadata.mask_name = NoteTxt.originalname
    /\ db[call[p].filename].mask_name = NULL

(***************************************************************************)
(* What a successful upload stores and reports.                            *)
(***************************************************************************)
\* a finished upload that returned success
UploadSucceeded(p) == UploadDone(p) /\ ~call[p].thrown

AllowedPair(extension, mimeType) ==
  extension \in DOMAIN ALLOWED_FILE_TYPES /\ mimeType \in ALLOWED_FILE_TYPES[extension]

(***************************************************************************)
(* C38: every FileRecord created by an upload, transformed or not, has a   *)
(* media type that ALLOWED_FILE_TYPES allows for the extension of its      *)
(* stored name.                                                            *)
(***************************************************************************)
C38_StoredPairIsAllowed ==
  \A p \in Procs :
    UploadSucceeded(p) =>
      /\ HasRecord(call[p].filename)
      /\ AllowedPair(call[p].filename.ext, db[call[p].filename].mime)

\* it holds for every upload that does not change the format
C38_UnconvertedPairIsAllowed ==
  \A p \in Procs :
    UploadSucceeded(p) /\ call[p].queryParams.convert = "" /\ call[p].queryParams.type = "" =>
      /\ HasRecord(call[p].filename)
      /\ AllowedPair(call[p].filename.ext, db[call[p].filename].mime)

\* a PNG converted to JPEG is stored under a .jpg name as image/png
C38_ConvertedKeepsOldType ==
  \E p \in Procs :
    /\ UploadSucceeded(p) /\ call[p].queryParams.convert = "jpg"
    /\ call[p].filename.ext = EXT_JPG
    /\ db[call[p].filename].mime = "image/png"
    /\ bufferStartsWith(disk[call[p].filename], JPEG_SIGNATURE)

(***************************************************************************)
(* C39: the success response of an upload reports the name, the media type *)
(* and the byte size of the FileRecord the upload persisted, with and      *)
(* without a transformation.                                               *)
(***************************************************************************)
C39_ResponseMatchesRecord ==
  \A p \in Procs :
    UploadSucceeded(p) =>
      LET c == call[p] IN
      /\ HasRecord(c.filename)
      /\ SuccessResponse(c).filename = db[c.filename].name
      /\ SuccessResponse(c).mimetype = db[c.filename].mime
      /\ SuccessResponse(c).size = db[c.filename].size

\* the name always matches; type and size match when nothing was transformed
\* and the client declared the type that validation infers from the name
C39_NameMatches ==
  \A p \in Procs :
    UploadSucceeded(p) =>
      LET c == call[p] IN
      /\ HasRecord(c.filename)
      /\ SuccessResponse(c).filename = db[c.filename].name
      /\ SuccessResponse(c).originalname = db[c.filename].mask_name
      /\ ~hasAnyTransformation(c.queryParams) => SuccessResponse(c).size = db[c.filename].size
      /\ c.file.mimetype = validateFile(c.file).mimeType =>
           SuccessResponse(c).mimetype = db[c.filename].mime

\* a transformed upload answered with the size of the uploaded bytes
C39_SizeOfOriginalReported ==
  \E p \in Procs :
    /\ UploadSucceeded(p) /\ call[p].queryParams.convert = "jpg"
    /\ SuccessResponse(call[p]).size # db[call[p].filename].size
    /\ db[call[p].filename].size = Len(disk[call[p].filename])

\* an upload answered with the media type the client declared
C39_DeclaredTypeReported ==
  \E p \in Procs :
    /\ UploadSucceeded(p) /\ call[p].file = PngDeclaredGif
    /\ SuccessResponse(call[p]).mimetype = "image/gif"
    /\ db[call[p].filename].mime = "image/png"

(***************************************************************************)
(* Resize parameters.                                                      *)
(***************************************************************************)
\* a finished call of parseResizeParameter
ResizeParsed(p) == call[p].op = "parseResizeParameter" /\ call[p].pc = "done"

InRange(d) == d.isNull \/ (d.value >= MIN_DIMENSION /\ d.value <= MAX_DIMENSION)

(***************************************************************************)
(* C40: every resize parameter that parseResizeParameter accepts yields    *)
(* dimensions each of which, when specified, lies in [MIN_DIMENSION,       *)
(* MAX_DIMENSION] = [200, 4000]; a parameter naming a dimension outside    *)
(* that range, 0 included, is rejected.                                    *)
(***************************************************************************)
C40_DimensionsInRange ==
  \A p \in Procs :
    ResizeParsed(p) =>
      LET c == call[p] IN
      /\ MIN_DIMENSION = 200 /\ MAX_DIMENSION = 4000
      /\ ~c.thrown => InRange(c.result.width) /\ InRange(c.result.height)
      /\ c.named # Null /\ (~InRange(c.named.width) \/ ~InRange(c.named.height)) =>
           c.thrown /\ c.error.statusCode = 400

\* the numbers of an accepted parameter are the numbers it was written
\* from, and every such number other than 0 is in range; a malformed
\* parameter and one naming no dimension are rejected
C40_NonZeroDimensionsInRange ==
  \A p \in Procs :
    ResizeParsed(p) =>
      LET c == call[p] IN
      /\ ~c.thrown =>
           /\ c.named # Null /\ c.result = c.named
           /\ \A d \in {c.result.width, c.result.height} : InRange(d) \/ d.value = 0
           /\ ~c.result.width.isNull \/ ~c.result.height.isNull
      /\ c.named = Null => c.thrown
      /\ c.named # Null
           /\ (\E d \in {c.named.width, c.named.height} : ~InRange(d) /\ d.value # 0)
           => c.thrown /\ c.error.statusCode = 400

\* 0x1000 is accepted with width 0
C40_ZeroAccepted ==
  \E p \in Procs :
    /\ ResizeParsed(p) /\ ~call[p].thrown
    /\ call[p].queryParams.resize = <<"0", "x", "1", "0", "0", "0">>
    /\ call[p].result.width = Dimension(0)
    /\ call[p].result.height = Dimension(1000)

====
